---- MODULE Spec2Model ----
(***************************************************************************)
(* Model of the FUSE protocol engine of fairy (fuse/src/uring_fuse):       *)
(* the request dispatch state machine of Request::dispatch and             *)
(* Request::dispatch_req, the single-use ReplyRaw object with its Drop     *)
(* safety net, and the Response serialisation that reaches the channel.    *)
(* The build modelled is the non-macOS one with every abi-7-x feature on.  *)
(***************************************************************************)
EXTENDS Integers, Sequences, FiniteSets, TLC

\* ------------------------------------------------------------------ bounds
\* Number of distinct request ids the kernel hands out in one behaviour.
NumUniques == 3

Uniques == 1..NumUniques

\* ------------------------------------------------------- program constants
EIO == 5
EACCES == 13
ENOSYS == 38
EPROTO == 71
ENOENT == 2

FUSE_ASYNC_READ == 1
FUSE_POSIX_LOCKS == 2
FUSE_ATOMIC_O_TRUNC == 8
FUSE_BIG_WRITES == 32
FUSE_MAX_PAGES == 4194304

\* ---------------------------------------------------------------- inputs
\* uid of the process that mounted the session, root, and a stranger
SessionOwners == {1000}
Uids == {0, 1000, 1001}

SessionACL == {"All", "RootAndOwner", "Owner"}

\* protocol versions a kernel may announce in FUSE_INIT
Majors == {5, 6, 7, 8}
Minors == {5, 6}

\* capability words a kernel may report in fuse_init_in.flags
KernelCaps == {0, FUSE_ASYNC_READ + FUSE_POSIX_LOCKS,
               FUSE_ASYNC_READ + FUSE_BIG_WRITES + FUSE_MAX_PAGES}

\* what a filesystem init hook may pass to KernelConfig::add_capabilities
\* fuse_init_in.max_readahead of the Init requests of a session
InitReadahead == 131072

HookCaps == {0, FUSE_POSIX_LOCKS}

\* errno values a filesystem implementation returns itself
FsErrnos == {ENOENT}

\* ------------------------------------------------------------ bit words
RECURSIVE BitAnd(_, _)
BitAnd(a, b) ==
    IF a = 0 \/ b = 0 THEN 0
    ELSE (a % 2) * (b % 2) + 2 * BitAnd(a \div 2, b \div 2)

BitOr(a, b) == a + b - BitAnd(a, b)

\* ------------------------------------------------------------ operations
\* variants of enum Operation
Operations ==
    {"Lookup", "Forget", "GetAttr", "SetAttr", "ReadLink", "SymLink",
     "MkNod", "MkDir", "Unlink", "RmDir", "Rename", "Link", "Open", "Read",
     "Write", "StatFs", "Release", "FSync", "SetXAttr", "GetXAttr",
     "ListXAttr", "RemoveXAttr", "Flush", "Init", "OpenDir", "ReadDir",
     "ReleaseDir", "FSyncDir", "GetLk", "SetLk", "SetLkW", "Access",
     "Create", "Interrupt", "BMap", "Destroy", "IoCtl", "Poll",
     "NotifyReply", "BatchForget", "FAllocate", "ReadDirPlus", "Rename2",
     "Lseek", "CopyFileRange", "CuseInit"}

\* an opcode number that fuse_opcode::try_from rejects
UnknownOpcode == "UNKNOWN"

Opcodes == Operations \cup {UnknownOpcode}

\* variant: arguments that are too short are not noticed
operation_ShortAccepted(r) ==
    IF r.opcode \notin Operations
    THEN [ok |-> FALSE, op |-> "UnknownOperation"]
    ELSE [ok |-> TRUE, op |-> r.opcode]

\* AnyRequest::operation: the decoded operation, or a RequestError
operation(r) ==
    IF r.opcode \notin Operations
    THEN [ok |-> FALSE, op |-> "UnknownOperation"]
    ELSE IF ~r.argsOk
    THEN [ok |-> FALSE, op |-> "InsufficientData"]
    ELSE [ok |-> TRUE, op |-> r.opcode]

\* ------------------------------------------------------------- versions
\* variant: both components compared pairwise instead of lexicographically
VersionLess_Pairwise(v, w) ==
    v[1] < w[1] /\ v[2] < w[2]

\* variant: the minor version left out of the comparison
VersionLess_MajorOnly(v, w) ==
    v[1] < w[1]

\* derived Ord on struct Version(u32, u32): lexicographic on (major, minor)
VersionLess(v, w) ==
    v[1] < w[1] \/ (v[1] = w[1] /\ v[2] < w[2])

\* ------------------------------------------------------------ responses
NoData == [kind |-> "none", flags |-> 0]

new_error(errno) == [tag |-> "Error", errno |-> errno, data |-> NoData]

new_empty == [tag |-> "Error", errno |-> 0, data |-> NoData]

new_data(d) == [tag |-> "Data", errno |-> 0, data |-> d]

\* Request::reply_err
reply_err(errno) == new_error(errno)

\* Response::with_iovec: the out-header (and payload) written for `unique`
with_iovec(resp, unique) ==
    [unique |-> unique,
     error  |-> IF resp.tag = "Error" THEN 0 - resp.errno ELSE 0,
     data   |-> IF resp.tag = "Error" THEN NoData ELSE resp.data]

\* --------------------------------------------------------- KernelConfig
default_init_flags(capabilities) ==
    LET INIT_FLAGS == BitOr(FUSE_ASYNC_READ, FUSE_BIG_WRITES)
    IN  IF BitAnd(capabilities, FUSE_MAX_PAGES) # 0
        THEN BitOr(INIT_FLAGS, FUSE_MAX_PAGES)
        ELSE INIT_FLAGS

\* session::MAX_WRITE_SIZE: 16 MiB
MAX_WRITE_SIZE == 16777216

\* std::time::Duration: whole seconds and the nanoseconds below a second
Duration_new(secs, nanos) == [secs |-> secs, nanos |-> nanos]

as_nanos(d) == d.secs * 1000000000 + d.nanos

KernelConfig_new(capabilities, max_readahead) ==
    [capabilities         |-> capabilities,
     requested            |-> default_init_flags(capabilities),
     max_readahead        |-> max_readahead,
     max_max_readahead    |-> max_readahead,
     max_background       |-> 16,
     congestion_threshold |-> [some |-> FALSE, value |-> 0],
     max_write            |-> MAX_WRITE_SIZE,
     time_gran            |-> Duration_new(0, 1)]

\* the Result of a setter and the configuration it leaves: Ok(previous)
\* or Err(value)
Accepted(config, previous) ==
    [config |-> config, ok |-> TRUE, val |-> previous]

Rejected(config, value) ==
    [config |-> config, ok |-> FALSE, val |-> value]

\* the while loop of set_time_granularity: the power of ten strictly
\* below a value that is not itself a power of ten
RECURSIVE time_gran_loop(_, _)
time_gran_loop(power_of_10, nanos) ==
    IF power_of_10 < nanos
    THEN IF nanos < power_of_10 * 10
         THEN [found |-> TRUE, power_of_10 |-> power_of_10]
         ELSE time_gran_loop(power_of_10 * 10, nanos)
    ELSE [found |-> FALSE, power_of_10 |-> power_of_10]

\* KernelConfig::set_time_granularity
set_time_granularity(config, value) ==
    IF as_nanos(value) = 0
    THEN Rejected(config, Duration_new(0, 1))
    ELSE IF value.secs > 1 \/ (value.secs = 1 /\ value.nanos > 0)
    THEN Rejected(config, Duration_new(1, 0))
    ELSE LET l == time_gran_loop(1, as_nanos(value))
         IN  IF l.found
             THEN Rejected(config, Duration_new(0, l.power_of_10))
             ELSE Accepted([config EXCEPT !.time_gran = value],
                           config.time_gran)

\* variant: a value above the maximum is stored clamped to it
set_max_write_Clamps(config, value) ==
    IF value = 0
    THEN Rejected(config, 1)
    ELSE IF value > MAX_WRITE_SIZE
    THEN Rejected([config EXCEPT !.max_write = MAX_WRITE_SIZE],
                  MAX_WRITE_SIZE)
    ELSE Accepted([config EXCEPT !.max_write = value], config.max_write)

\* KernelConfig::set_max_write
set_max_write(config, value) ==
    IF value = 0
    THEN Rejected(config, 1)
    ELSE IF value > MAX_WRITE_SIZE
    THEN Rejected(config, MAX_WRITE_SIZE)
    ELSE Accepted([config EXCEPT !.max_write = value], config.max_write)

\* KernelConfig::set_max_readahead
set_max_readahead(config, value) ==
    IF value = 0
    THEN Rejected(config, 1)
    ELSE IF value > config.max_max_readahead
    THEN Rejected(config, config.max_max_readahead)
    ELSE Accepted([config EXCEPT !.max_readahead = value],
                  config.max_readahead)

\* variant: the supported part of the bits is added when some are not
add_capabilities_Partial(config, capabilities_to_add) ==
    LET supported == BitAnd(capabilities_to_add, config.capabilities)
    IN  IF supported # capabilities_to_add
        THEN Rejected([config EXCEPT !.requested = BitOr(@, supported)],
                      capabilities_to_add - supported)
        ELSE Accepted([config EXCEPT
                         !.requested = BitOr(@, capabilities_to_add)], 0)

\* KernelConfig::add_capabilities: Ok(()) or Err(unsupported bits)
add_capabilities(config, capabilities_to_add) ==
    IF BitAnd(capabilities_to_add, config.capabilities) # capabilities_to_add
    THEN Rejected(config,
                  capabilities_to_add
                    - BitAnd(capabilities_to_add, config.capabilities))
    ELSE Accepted([config EXCEPT
                     !.requested = BitOr(@, capabilities_to_add)], 0)

\* KernelConfig::set_max_background
set_max_background(config, value) ==
    IF value = 0
    THEN Rejected(config, 1)
    ELSE Accepted([config EXCEPT !.max_background = value],
                  config.max_background)

\* variant: the stored threshold is sent as it is
congestion_threshold_Stored(config) ==
    IF ~config.congestion_threshold.some
    THEN (config.max_background * 3) \div 4
    ELSE config.congestion_threshold.value

\* KernelConfig::congestion_threshold: the threshold sent to the kernel
congestion_threshold(config) ==
    IF ~config.congestion_threshold.some
    THEN (config.max_background * 3) \div 4
    ELSE IF config.congestion_threshold.value <= config.max_background
    THEN config.congestion_threshold.value
    ELSE config.max_background

\* Init::reply: the fuse_init_out made from the request's capabilities and
\* the configuration the init hook left
fuse_init_out(capabilities, config) ==
    [max_readahead        |-> config.max_readahead,
     flags                |-> BitAnd(capabilities, config.requested),
     max_background       |-> config.max_background,
     congestion_threshold |-> congestion_threshold(config),
     max_write            |-> config.max_write,
     time_gran            |-> as_nanos(config.time_gran)]

\* KernelConfig::set_congestion_threshold
set_congestion_threshold(config, value) ==
    IF value = 0
    THEN Rejected(config, 1)
    ELSE Accepted([config EXCEPT
                     !.congestion_threshold = [some |-> TRUE, value |-> value]],
                  congestion_threshold(config))

\* variant: the requested flags sent without masking by the capabilities
Init_reply_Requested(r, config) ==
    new_data([kind |-> "init", flags |-> config.requested])

\* Init::reply
Init_reply(r, config) ==
    new_data([kind |-> "init", flags |-> BitAnd(r.flags, config.requested)])

\* Destroy::reply
Destroy_reply == new_empty

\* ------------------------------------------------------------- ReplyRaw
\* variant: the Reply is built with a fixed id instead of the request's
ReplyRaw_new_FixedId(unique) == [unique |-> 1, sender |-> TRUE]

\* Reply::new for ReplyRaw: the sender is Some
ReplyRaw_new(unique) == [unique |-> unique, sender |-> TRUE]

\* variant: the sender is used but left in place instead of taken
send_ll_mut_KeepsSender(reply, response, wire) ==
    IF reply.sender
    THEN [reply |-> reply,
          wire  |-> Append(wire, with_iovec(response, reply.unique))]
    ELSE [reply |-> reply, wire |-> wire]

\* ReplyRaw::send_ll_mut: takes the sender and writes the response; the
\* assert!(self.sender.is_some()) is the guard of the first branch
send_ll_mut(reply, response, wire) ==
    IF reply.sender
    THEN [reply |-> [reply EXCEPT !.sender = FALSE],
          wire  |-> Append(wire, with_iovec(response, reply.unique))]
    ELSE [reply |-> reply, wire |-> wire]

\* impl Drop for ReplyRaw: an unanswered reply becomes an EIO error reply
ReplyRaw_drop(reply, wire) ==
    IF reply.sender
    THEN send_ll_mut(reply, new_error(EIO), wire).wire
    ELSE wire

\* ReplyRaw::send_ll: consumes the reply, which is dropped on return
send_ll(reply, response, wire) ==
    LET s == send_ll_mut(reply, response, wire)
    IN  ReplyRaw_drop(s.reply, s.wire)

\* ReplyRaw::error
ReplyRaw_error(reply, err, wire) == send_ll(reply, new_error(err), wire)

\* the named success method of a Reply wrapper (entry, attr, opened, ok, ...)
Reply_ok(reply, wire) ==
    send_ll(reply, new_data([kind |-> "fs", flags |-> 0]), wire)

\* ----------------------------------------------------------- filesystem
\* What a Filesystem method does with the single-use Reply it is handed:
\* complete it, return without completing it, or keep it for later.
FsActs == {"ok", "error", "drop", "retain"}

FsCallback(reply, act, err) ==
    CASE act = "ok"     -> [wire |-> Reply_ok(reply, <<>>), kept |-> {},
                            fate |-> "completed"]
      [] act = "error"  -> [wire |-> ReplyRaw_error(reply, err, <<>>),
                            kept |-> {}, fate |-> "completed"]
      [] act = "drop"   -> [wire |-> ReplyRaw_drop(reply, <<>>), kept |-> {},
                            fate |-> "abandoned"]
      [] act = "retain" -> [wire |-> <<>>, kept |-> {reply}, fate |-> "live"]

\* the Filesystem method each routed Operation variant is passed to
FsMethod ==
    [op \in Operations |->
       CASE op = "Lookup" -> "lookup"        [] op = "Forget" -> "forget"
         [] op = "GetAttr" -> "getattr"      [] op = "SetAttr" -> "setattr"
         [] op = "ReadLink" -> "readlink"    [] op = "SymLink" -> "symlink"
         [] op = "MkNod" -> "mknod"          [] op = "MkDir" -> "mkdir"
         [] op = "Unlink" -> "unlink"        [] op = "RmDir" -> "rmdir"
         [] op = "Rename" -> "rename"        [] op = "Link" -> "link"
         [] op = "Open" -> "open"            [] op = "Read" -> "read"
         [] op = "Write" -> "write"          [] op = "StatFs" -> "statfs"
         [] op = "Release" -> "release"      [] op = "FSync" -> "fsync"
         [] op = "SetXAttr" -> "setxattr"    [] op = "GetXAttr" -> "getxattr"
         [] op = "ListXAttr" -> "listxattr"
         [] op = "RemoveXAttr" -> "removexattr"
         [] op = "Flush" -> "flush"          [] op = "Init" -> "init"
         [] op = "OpenDir" -> "opendir"      [] op = "ReadDir" -> "readdir"
         [] op = "ReleaseDir" -> "releasedir"
         [] op = "FSyncDir" -> "fsyncdir"    [] op = "GetLk" -> "getlk"
         [] op = "SetLk" -> "setlk"          [] op = "SetLkW" -> "setlk"
         [] op = "Access" -> "access"        [] op = "Create" -> "create"
         [] op = "BMap" -> "bmap"            [] op = "Destroy" -> "destroy"
         [] op = "IoCtl" -> "ioctl"
         [] op = "BatchForget" -> "batch_forget"
         [] op = "FAllocate" -> "fallocate"
         [] op = "ReadDirPlus" -> "readdirplus"
         [] op = "Rename2" -> "rename"       [] op = "Lseek" -> "lseek"
         [] op = "CopyFileRange" -> "copy_file_range"
         [] OTHER -> "none"]

\* -------------------------------------------------------------- dispatch
\* operations the kernel may issue without a uid set (abi-7-21 list)
AllowList ==
    {"Init", "Destroy", "Read", "ReadDir", "ReadDirPlus", "BatchForget",
     "Forget", "Write", "FSync", "FSyncDir", "Release", "ReleaseDir"}

\* variant: under RootAndOwner the root user is not exempted
AccessViolated_RootNotExempt(se, r) ==
    \/ (se.allowed = "RootAndOwner" /\ r.uid # se.session_owner)
    \/ (se.allowed = "Owner" /\ r.uid # se.session_owner)

\* the allow_root / auto_unmount access condition of dispatch_req
AccessViolated(se, r) ==
    \/ (se.allowed = "RootAndOwner" /\ r.uid # se.session_owner /\ r.uid # 0)
    \/ (se.allowed = "Owner" /\ r.uid # se.session_owner)

\* result shapes of dispatch_req: Err(errno), Ok(Some(resp)), Ok(None)
Quiet == [wire |-> <<>>, kept |-> {}, fate |-> "silent"]

\* no KernelConfig was built
NoConfig == [capabilities |-> 0, requested |-> 0]

Err(se, errno, called) ==
    [se |-> se, tag |-> "Err", errno |-> errno, resp |-> new_error(errno),
     called |-> called, fs |-> Quiet, config |-> NoConfig]

OkSome(se, resp, called) ==
    [se |-> se, tag |-> "Some", errno |-> 0, resp |-> resp,
     called |-> called, fs |-> Quiet, config |-> NoConfig]

OkNone(se, called, fs) ==
    [se |-> se, tag |-> "None", errno |-> 0, resp |-> new_empty,
     called |-> called, fs |-> fs, config |-> NoConfig]

\* variant: a failing init hook clears the initialized flag
dispatch_init_ClearsOnError(se, r, hook) ==
    IF VersionLess(<<r.major, r.minor>>, <<7, 6>>)
    THEN Err(se, EPROTO, "none")
    ELSE LET se1 == [se EXCEPT !.proto_major = r.major,
                               !.proto_minor = r.minor]
             config == add_capabilities(
                         KernelConfig_new(r.flags, r.max_readahead),
                         hook.add).config
         IN  IF hook.err # 0
             THEN [Err([se1 EXCEPT !.initialized = FALSE], hook.err, "init")
                     EXCEPT !.config = config]
             ELSE [OkSome([se1 EXCEPT !.initialized = TRUE],
                          Init_reply(r, config), "init")
                     EXCEPT !.config = config]

\* variant: the session is marked initialized before the init hook runs
dispatch_init_MarksBeforeHook(se, r, hook) ==
    IF VersionLess(<<r.major, r.minor>>, <<7, 6>>)
    THEN Err(se, EPROTO, "none")
    ELSE LET se1 == [se EXCEPT !.proto_major = r.major,
                               !.proto_minor = r.minor,
                               !.initialized = TRUE]
             config == add_capabilities(
                         KernelConfig_new(r.flags, r.max_readahead),
                         hook.add).config
         IN  IF hook.err # 0
             THEN [Err(se1, hook.err, "init") EXCEPT !.config = config]
             ELSE [OkSome(se1, Init_reply(r, config), "init")
                     EXCEPT !.config = config]

\* variant: the kernel's version is recorded only once the hook succeeded
dispatch_init_VersionOnSuccess(se, r, hook) ==
    IF VersionLess(<<r.major, r.minor>>, <<7, 6>>)
    THEN Err(se, EPROTO, "none")
    ELSE LET se1 == [se EXCEPT !.proto_major = r.major,
                               !.proto_minor = r.minor]
             config == add_capabilities(
                         KernelConfig_new(r.flags, r.max_readahead),
                         hook.add).config
         IN  IF hook.err # 0
             THEN [Err(se, hook.err, "init") EXCEPT !.config = config]
             ELSE [OkSome([se1 EXCEPT !.initialized = TRUE],
                          Init_reply(r, config), "init")
                     EXCEPT !.config = config]

\* the Operation::Init arm
dispatch_init(se, r, hook) ==
    IF VersionLess(<<r.major, r.minor>>, <<7, 6>>)
    THEN Err(se, EPROTO, "none")
    ELSE LET se1 == [se EXCEPT !.proto_major = r.major,
                               !.proto_minor = r.minor]
             config == add_capabilities(
                         KernelConfig_new(r.flags, r.max_readahead),
                         hook.add).config
         IN  IF hook.err # 0
             THEN [Err(se1, hook.err, "init") EXCEPT !.config = config]
             ELSE [OkSome([se1 EXCEPT !.initialized = TRUE],
                          Init_reply(r, config), "init")
                     EXCEPT !.config = config]

\* variant: destroying the filesystem also resets the initialized flag
dispatch_destroy_Uninit(se) ==
    OkSome([se EXCEPT !.destroyed = TRUE, !.initialized = FALSE],
           Destroy_reply, "destroy")

\* variant: the destroy hook runs but the destroyed flag is not set
dispatch_destroy_NoFlag(se) ==
    OkSome(se, Destroy_reply, "destroy")

\* the Operation::Destroy arm
dispatch_destroy(se) ==
    OkSome([se EXCEPT !.destroyed = TRUE], Destroy_reply, "destroy")

\* variant: the FUSE_IOCTL_UNRESTRICTED test of the IoCtl arm inverted
dispatch_route_IoctlInverted(se, r, op, hook) ==
    CASE op = "Interrupt" -> Err(se, ENOSYS, "none")
      [] op = "IoCtl" /\ ~r.unrestricted -> Err(se, ENOSYS, "none")
      [] op \in {"Poll", "NotifyReply", "CuseInit"} -> Err(se, ENOSYS, "none")
      [] op \in {"Forget", "BatchForget"} -> OkNone(se, FsMethod[op], Quiet)
      [] OTHER ->
           OkNone(se, FsMethod[op],
                  FsCallback(ReplyRaw_new(r.unique), hook.act, hook.acterr))

\* the arms that route an operation to the filesystem
dispatch_route(se, r, op, hook) ==
    CASE op = "Interrupt" -> Err(se, ENOSYS, "none")
      [] op = "IoCtl" /\ r.unrestricted -> Err(se, ENOSYS, "none")
      [] op \in {"Poll", "NotifyReply", "CuseInit"} -> Err(se, ENOSYS, "none")
      [] op \in {"Forget", "BatchForget"} -> OkNone(se, FsMethod[op], Quiet)
      [] OTHER ->
           OkNone(se, FsMethod[op],
                  FsCallback(ReplyRaw_new(r.unique), hook.act, hook.acterr))

\* variant: the "invalid after destroy" arm is missing
dispatch_req_NoDestroyedGuard(se, r, hook) ==
    LET o == operation(r)
    IN  IF ~o.ok THEN Err(se, ENOSYS, "none")
        ELSE IF AccessViolated(se, r) /\ o.op \notin AllowList
        THEN Err(se, EACCES, "none")
        ELSE IF o.op = "Init" THEN dispatch_init(se, r, hook)
        ELSE IF ~se.initialized THEN Err(se, EIO, "none")
        ELSE IF o.op = "Destroy" THEN dispatch_destroy(se)
        ELSE dispatch_route(se, r, o.op, hook)

\* variant: the Destroy arm placed ahead of the "invalid before init" arm
dispatch_req_DestroyFirst(se, r, hook) ==
    LET o == operation(r)
    IN  IF ~o.ok THEN Err(se, ENOSYS, "none")
        ELSE IF AccessViolated(se, r) /\ o.op \notin AllowList
        THEN Err(se, EACCES, "none")
        ELSE IF o.op = "Init" THEN dispatch_init(se, r, hook)
        ELSE IF o.op = "Destroy" THEN dispatch_destroy(se)
        ELSE IF ~se.initialized THEN Err(se, EIO, "none")
        ELSE IF se.destroyed THEN Err(se, EIO, "none")
        ELSE dispatch_route(se, r, o.op, hook)

\* variant: the lifecycle guards placed ahead of the decode
dispatch_req_LifecycleFirst(se, r, hook) ==
    LET o == operation(r)
    IN  IF ~se.initialized /\ r.opcode # "Init" THEN Err(se, EIO, "none")
        ELSE IF se.destroyed /\ r.opcode \notin {"Init", "Destroy"}
        THEN Err(se, EIO, "none")
        ELSE IF ~o.ok THEN Err(se, ENOSYS, "none")
        ELSE IF AccessViolated(se, r) /\ o.op \notin AllowList
        THEN Err(se, EACCES, "none")
        ELSE IF o.op = "Init" THEN dispatch_init(se, r, hook)
        ELSE IF o.op = "Destroy" THEN dispatch_destroy(se)
        ELSE dispatch_route(se, r, o.op, hook)

\* variant: the access check placed after the lifecycle guards
dispatch_req_AccessAfterLifecycle(se, r, hook) ==
    LET o == operation(r)
    IN  IF ~o.ok THEN Err(se, ENOSYS, "none")
        ELSE IF o.op = "Init" THEN dispatch_init(se, r, hook)
        ELSE IF ~se.initialized THEN Err(se, EIO, "none")
        ELSE IF o.op = "Destroy" THEN dispatch_destroy(se)
        ELSE IF se.destroyed THEN Err(se, EIO, "none")
        ELSE IF AccessViolated(se, r) /\ o.op \notin AllowList
        THEN Err(se, EACCES, "none")
        ELSE dispatch_route(se, r, o.op, hook)

\* Request::dispatch_req; `hook` is what the filesystem does when called
dispatch_req(se, r, hook) ==
    LET o == operation(r)
    IN  IF ~o.ok THEN Err(se, ENOSYS, "none")
        ELSE IF AccessViolated(se, r) /\ o.op \notin AllowList
        THEN Err(se, EACCES, "none")
        ELSE IF o.op = "Init" THEN dispatch_init(se, r, hook)
        ELSE IF ~se.initialized THEN Err(se, EIO, "none")
        ELSE IF o.op = "Destroy" THEN dispatch_destroy(se)
        ELSE IF se.destroyed THEN Err(se, EIO, "none")
        ELSE dispatch_route(se, r, o.op, hook)

\* variant: an Err result is logged but no error reply is written
dispatch_SilentErr(se, r, hook) ==
    LET d == dispatch_req(se, r, hook)
        unique == r.unique
    IN  CASE d.tag = "Some" ->
               [d EXCEPT !.fs = [Quiet EXCEPT
                    !.wire = <<with_iovec(d.resp, unique)>>,
                    !.fate = "answered"]]
          [] d.tag = "None" -> d
          [] d.tag = "Err" ->
               [d EXCEPT !.fs = [Quiet EXCEPT !.fate = "answered"]]

\* Request::dispatch: the messages written to the channel by the call
dispatch(se, r, hook) ==
    LET d == dispatch_req(se, r, hook)
        unique == r.unique
    IN  CASE d.tag = "Some" ->
               [d EXCEPT !.fs = [Quiet EXCEPT
                    !.wire = <<with_iovec(d.resp, unique)>>,
                    !.fate = "answered"]]
          [] d.tag = "None" -> d
          [] d.tag = "Err" ->
               [d EXCEPT !.fs = [Quiet EXCEPT
                    !.wire = <<with_iovec(reply_err(d.errno), unique)>>,
                    !.fate = "answered"]]

\* ------------------------------------------------------- request bytes
\* longest file name and longest trailing payload of the request buffers
MaxNameLen == 2

MaxPayload == 2

\* little-endian bytes of v in an n-byte field, and the value of such bytes
RECURSIVE LE(_, _)
LE(v, n) == IF n = 0 THEN <<>> ELSE <<v % 256>> \o LE(v \div 256, n - 1)

RECURSIVE FromLE(_)
FromLE(b) == IF b = <<>> THEN 0 ELSE b[1] + 256 * FromLE(Tail(b))

RECURSIVE Zeros(_)
Zeros(n) == IF n = 0 THEN <<>> ELSE <<0>> \o Zeros(n - 1)

\* size_of::<fuse_in_header>(): len, opcode, unique, nodeid, uid, gid, pid,
\* padding
HeaderSize == 40

\* the numbers of enum fuse_opcode
OpcodeNumber ==
    [op \in Operations |->
       CASE op = "Lookup" -> 1        [] op = "Forget" -> 2
         [] op = "GetAttr" -> 3       [] op = "SetAttr" -> 4
         [] op = "ReadLink" -> 5      [] op = "SymLink" -> 6
         [] op = "MkNod" -> 8         [] op = "MkDir" -> 9
         [] op = "Unlink" -> 10       [] op = "RmDir" -> 11
         [] op = "Rename" -> 12       [] op = "Link" -> 13
         [] op = "Open" -> 14         [] op = "Read" -> 15
         [] op = "Write" -> 16        [] op = "StatFs" -> 17
         [] op = "Release" -> 18      [] op = "FSync" -> 20
         [] op = "SetXAttr" -> 21     [] op = "GetXAttr" -> 22
         [] op = "ListXAttr" -> 23    [] op = "RemoveXAttr" -> 24
         [] op = "Flush" -> 25        [] op = "Init" -> 26
         [] op = "OpenDir" -> 27      [] op = "ReadDir" -> 28
         [] op = "ReleaseDir" -> 29   [] op = "FSyncDir" -> 30
         [] op = "GetLk" -> 31        [] op = "SetLk" -> 32
         [] op = "SetLkW" -> 33       [] op = "Access" -> 34
         [] op = "Create" -> 35       [] op = "Interrupt" -> 36
         [] op = "BMap" -> 37         [] op = "Destroy" -> 38
         [] op = "IoCtl" -> 39        [] op = "Poll" -> 40
         [] op = "NotifyReply" -> 41  [] op = "BatchForget" -> 42
         [] op = "FAllocate" -> 43    [] op = "ReadDirPlus" -> 44
         [] op = "Rename2" -> 45      [] op = "Lseek" -> 46
         [] op = "CopyFileRange" -> 47
         [] op = "CuseInit" -> 4096]

\* fuse_opcode::try_from(u32)
fuse_opcode_try_from(n) ==
    IF \E op \in Operations : OpcodeNumber[op] = n
    THEN [ok |-> TRUE, op |-> CHOOSE op \in Operations : OpcodeNumber[op] = n]
    ELSE [ok |-> FALSE, op |-> UnknownOpcode]

\* the fixed-size argument struct of each operation: its size, its
\* alignment, and the offset of the u32 field `parse` reads from it (the
\* size of Write and SetXAttr, the count of BatchForget)
ArgStruct ==
    [op \in Operations |->
       CASE op = "Forget" -> [size |-> 8, align |-> 8, field |-> 0]
         [] op = "SetAttr" -> [size |-> 88, align |-> 8, field |-> 0]
         [] op = "MkNod" -> [size |-> 16, align |-> 4, field |-> 0]
         [] op = "MkDir" -> [size |-> 8, align |-> 4, field |-> 0]
         [] op = "Rename" -> [size |-> 8, align |-> 8, field |-> 0]
         [] op = "Link" -> [size |-> 8, align |-> 8, field |-> 0]
         [] op \in {"Open", "OpenDir"} ->
              [size |-> 8, align |-> 4, field |-> 0]
         [] op \in {"Read", "ReadDir", "ReadDirPlus"} ->
              [size |-> 40, align |-> 8, field |-> 16]
         [] op = "Write" -> [size |-> 40, align |-> 8, field |-> 16]
         [] op \in {"Release", "ReleaseDir"} ->
              [size |-> 24, align |-> 8, field |-> 0]
         [] op \in {"FSync", "FSyncDir"} ->
              [size |-> 16, align |-> 8, field |-> 0]
         [] op = "SetXAttr" -> [size |-> 8, align |-> 4, field |-> 0]
         [] op \in {"GetXAttr", "ListXAttr"} ->
              [size |-> 8, align |-> 4, field |-> 0]
         [] op = "Flush" -> [size |-> 24, align |-> 8, field |-> 0]
         [] op \in {"Init", "CuseInit"} ->
              [size |-> 16, align |-> 4, field |-> 0]
         [] op \in {"GetLk", "SetLk", "SetLkW"} ->
              [size |-> 48, align |-> 8, field |-> 0]
         [] op = "Access" -> [size |-> 8, align |-> 4, field |-> 0]
         [] op = "Create" -> [size |-> 16, align |-> 4, field |-> 0]
         [] op = "Interrupt" -> [size |-> 8, align |-> 8, field |-> 0]
         [] op = "BMap" -> [size |-> 16, align |-> 8, field |-> 0]
         [] op = "IoCtl" -> [size |-> 32, align |-> 8, field |-> 24]
         [] op = "Poll" -> [size |-> 24, align |-> 8, field |-> 0]
         [] op = "BatchForget" -> [size |-> 8, align |-> 4, field |-> 0]
         [] op = "FAllocate" -> [size |-> 32, align |-> 8, field |-> 0]
         [] op = "Rename2" -> [size |-> 16, align |-> 8, field |-> 0]
         [] op = "Lseek" -> [size |-> 24, align |-> 8, field |-> 0]
         [] op = "CopyFileRange" -> [size |-> 56, align |-> 8, field |-> 0]
         [] OTHER -> [size |-> 0, align |-> 1, field |-> 0]]

\* size and alignment of fuse_forget_one, the element of a BatchForget
ForgetOne == [size |-> 16, align |-> 8]

\* ---------------------------------------------------- ArgumentIterator
\* The iterator is the remaining bytes and their distance `off` from the
\* start of the receive buffer, which is aligned for every argument type.
ArgumentIterator_new(data, off) == [data |-> data, off |-> off]

Rest(data, n) == SubSeq(data, n + 1, Len(data))

\* ArgumentIterator::fetch_all
fetch_all(it) ==
    [tag |-> "Some", val |-> it.data,
     it |-> [data |-> <<>>, off |-> it.off + Len(it.data)]]

\* ArgumentIterator::fetch::<T>() for a T of the given size and alignment
fetch(it, size, align) ==
    IF Len(it.data) >= size /\ it.off % align = 0
    THEN [tag |-> "Some", val |-> SubSeq(it.data, 1, size),
          it |-> [data |-> Rest(it.data, size), off |-> it.off + size]]
    ELSE IF it.off % align # 0
    THEN [tag |-> "Panic", val |-> <<>>, it |-> it]
    ELSE [tag |-> "None", val |-> <<>>, it |-> it]

\* ArgumentIterator::fetch_slice::<T>(count)
fetch_slice(it, size, align, count) ==
    IF Len(it.data) >= size * count /\ it.off % align = 0
    THEN [tag |-> "Some", val |-> SubSeq(it.data, 1, size * count),
          it |-> [data |-> Rest(it.data, size * count),
                  off |-> it.off + size * count]]
    ELSE IF it.off % align # 0
    THEN [tag |-> "Panic", val |-> <<>>, it |-> it]
    ELSE [tag |-> "None", val |-> <<>>, it |-> it]

\* variant: a miss drops the remaining data
fetch_str_ConsumesOnMiss(it) ==
    IF \E i \in DOMAIN it.data : it.data[i] = 0
    THEN LET len == (CHOOSE i \in DOMAIN it.data :
                       /\ it.data[i] = 0
                       /\ \A j \in 1..(i - 1) : it.data[j] # 0) - 1
         IN  [tag |-> "Some", val |-> SubSeq(it.data, 1, len),
              it |-> [data |-> Rest(it.data, len + 1),
                      off |-> it.off + len + 1]]
    ELSE [tag |-> "None", val |-> <<>>,
          it |-> [data |-> <<>>, off |-> it.off + Len(it.data)]]

\* variant: the terminator is left in the remaining data
fetch_str_KeepsNul(it) ==
    IF \E i \in DOMAIN it.data : it.data[i] = 0
    THEN LET len == (CHOOSE i \in DOMAIN it.data :
                       /\ it.data[i] = 0
                       /\ \A j \in 1..(i - 1) : it.data[j] # 0) - 1
         IN  [tag |-> "Some", val |-> SubSeq(it.data, 1, len),
              it |-> [data |-> Rest(it.data, len),
                      off |-> it.off + len]]
    ELSE [tag |-> "None", val |-> <<>>, it |-> it]

\* ArgumentIterator::fetch_str: the bytes before the first NUL
fetch_str(it) ==
    IF \E i \in DOMAIN it.data : it.data[i] = 0
    THEN LET len == (CHOOSE i \in DOMAIN it.data :
                       /\ it.data[i] = 0
                       /\ \A j \in 1..(i - 1) : it.data[j] # 0) - 1
         IN  [tag |-> "Some", val |-> SubSeq(it.data, 1, len),
              it |-> [data |-> Rest(it.data, len + 1),
                      off |-> it.off + len + 1]]
    ELSE [tag |-> "None", val |-> <<>>, it |-> it]

\* ------------------------------------------------------------- decoding
\* the fetches `parse` makes for each opcode, in order; "assert" is the
\* assert! that the trailing data has the length the argument announces
ParseSteps(op) ==
    CASE op \in {"GetAttr", "ReadLink", "StatFs", "Destroy"} -> <<>>
      [] op \in {"Lookup", "Unlink", "RmDir", "RemoveXAttr"} -> <<"str">>
      [] op = "SymLink" -> <<"str", "str">>
      [] op \in {"MkNod", "MkDir", "Link", "Create", "GetXAttr"} ->
           <<"arg", "str">>
      [] op \in {"Rename", "Rename2"} -> <<"arg", "str", "str">>
      [] op = "Write" -> <<"arg", "all", "assert">>
      [] op = "SetXAttr" -> <<"arg", "str", "all", "assert">>
      [] op = "IoCtl" -> <<"arg", "all">>
      [] op = "NotifyReply" -> <<"all">>
      [] op = "BatchForget" -> <<"arg", "slice">>
      [] OTHER -> <<"arg">>

\* the u32 field of the argument struct that `parse` reads
ArgField(op, arg) ==
    FromLE(SubSeq(arg, ArgStruct[op].field + 1, ArgStruct[op].field + 4))

RECURSIVE parse_steps(_, _, _, _)
parse_steps(op, it, steps, got) ==
    IF steps = <<>>
    THEN [tag |-> "Some", op |-> op, args |-> got]
    ELSE LET f == CASE Head(steps) = "arg" ->
                        fetch(it, ArgStruct[op].size, ArgStruct[op].align)
                     [] Head(steps) = "str" -> fetch_str(it)
                     [] Head(steps) = "all" -> fetch_all(it)
                     [] Head(steps) = "slice" ->
                        fetch_slice(it, ForgetOne.size, ForgetOne.align,
                                    ArgField(op, got[1]))
                     [] Head(steps) = "assert" ->
                        IF Len(got[Len(got)]) = ArgField(op, got[1])
                        THEN [tag |-> "Skip", val |-> <<>>, it |-> it]
                        ELSE [tag |-> "Panic", val |-> <<>>, it |-> it]
         IN  CASE f.tag = "Some" ->
                    parse_steps(op, f.it, Tail(steps), Append(got, f.val))
               [] f.tag = "Skip" -> parse_steps(op, f.it, Tail(steps), got)
               [] OTHER -> [tag |-> f.tag, op |-> op, args |-> got]

\* low_level::op::parse: Some(operation), None, or a panic
NoHeader ==
    [len |-> 0, opcode |-> 0, unique |-> 0, nodeid |-> 0, uid |-> 0,
     gid |-> 0, pid |-> 0]

\* variant: the operation does not keep the request's header
parse_HeaderNotKept(header, opcode, data) ==
    LET o == parse_steps(opcode, ArgumentIterator_new(data, HeaderSize),
                         ParseSteps(opcode), <<>>)
    IN  [tag |-> o.tag, op |-> o.op, args |-> o.args, header |-> NoHeader]

parse(header, opcode, data) ==
    LET o == parse_steps(opcode, ArgumentIterator_new(data, HeaderSize),
                         ParseSteps(opcode), <<>>)
    IN  [tag |-> o.tag, op |-> o.op, args |-> o.args, header |-> header]

\* impl_request!: the accessors every operation has read its header
Request_unique(o) == o.header.unique

Request_nodeid(o) == o.header.nodeid

Request_uid(o) == o.header.uid

Request_gid(o) == o.header.gid

Request_pid(o) == o.header.pid

\* the fields of a fuse_in_header read in place from its bytes
fuse_in_header(b) ==
    [len    |-> FromLE(SubSeq(b, 1, 4)),
     opcode |-> FromLE(SubSeq(b, 5, 8)),
     unique |-> FromLE(SubSeq(b, 9, 16)),
     nodeid |-> FromLE(SubSeq(b, 17, 24)),
     uid    |-> FromLE(SubSeq(b, 25, 28)),
     gid    |-> FromLE(SubSeq(b, 29, 32)),
     pid    |-> FromLE(SubSeq(b, 33, 36))]

\* variant: the comparison of the buffer length with header.len left out
AnyRequest_try_from_NoLengthCheck(data) ==
    LET h == fetch(ArgumentIterator_new(data, 0), HeaderSize, 8)
    IN  IF h.tag # "Some"
        THEN [tag |-> "ShortReadHeader", header |-> NoHeader, data |-> <<>>]
        ELSE LET header == fuse_in_header(h.val)
             IN  [tag |-> "Ok", header |-> header,
                  data |-> SubSeq(data, HeaderSize + 1, Len(data))]

\* impl TryFrom<&[u8]> for AnyRequest; slicing data[40..header.len] with
\* header.len below 40 panics
AnyRequest_try_from(data) ==
    LET h == fetch(ArgumentIterator_new(data, 0), HeaderSize, 8)
    IN  IF h.tag # "Some"
        THEN [tag |-> "ShortReadHeader", header |-> NoHeader, data |-> <<>>]
        ELSE LET header == fuse_in_header(h.val)
             IN  IF Len(data) < header.len
                 THEN [tag |-> "ShortRead", header |-> header, data |-> <<>>]
                 ELSE IF header.len < HeaderSize
                 THEN [tag |-> "Panic", header |-> header, data |-> <<>>]
                 ELSE [tag |-> "Ok", header |-> header,
                       data |-> SubSeq(data, HeaderSize + 1, header.len)]

\* AnyRequest::operation on the bytes of a request
AnyRequest_operation(request) ==
    LET opcode == fuse_opcode_try_from(request.header.opcode)
    IN  IF ~opcode.ok
        THEN [tag |-> "UnknownOperation", op |-> UnknownOpcode, args |-> <<>>,
              header |-> request.header]
        ELSE LET o == parse(request.header, opcode.op, request.data)
             IN  IF o.tag = "None"
                 THEN [tag |-> "InsufficientData", op |-> opcode.op,
                       args |-> <<>>, header |-> request.header]
                 ELSE o

\* Request::new: None when the buffer is not a whole request
Request_new(data) ==
    LET request == AnyRequest_try_from(data)
    IN  IF request.tag = "Ok"
        THEN [some |-> TRUE, request |-> request, err |-> "none"]
        ELSE [some |-> FALSE, request |-> request, err |-> request.tag]

\* decoding a receive buffer: Request::new followed by operation()
Decode(data) ==
    LET r == Request_new(data)
    IN  IF r.some
        THEN AnyRequest_operation(r.request)
        ELSE [tag |-> r.err, op |-> UnknownOpcode, args |-> <<>>,
              header |-> NoHeader]

\* ------------------------------------------------- well-formed buffers
RECURSIVE Fill(_, _)
Fill(byte, n) == IF n = 0 THEN <<>> ELSE <<byte>> \o Fill(byte, n - 1)

\* file names: 1..MaxNameLen bytes of 'a'
Names == { Fill(97, n) : n \in 1..MaxNameLen }

\* the argument struct of op with n in the field `parse` reads
ArgBytes(op, n) ==
    LET a == ArgStruct[op]
    IN  IF a.size = 0 THEN <<>>
        ELSE Zeros(a.field) \o LE(n, 4) \o Zeros(a.size - a.field - 4)

RECURSIVE BodyBytes(_, _, _, _)
BodyBytes(op, steps, names, n) ==
    IF steps = <<>> THEN <<>>
    ELSE CASE Head(steps) = "arg" ->
                ArgBytes(op, n) \o BodyBytes(op, Tail(steps), names, n)
           [] Head(steps) = "str" ->
                Head(names) \o <<0>>
                  \o BodyBytes(op, Tail(steps), Tail(names), n)
           [] Head(steps) = "all" ->
                Fill(7, n) \o BodyBytes(op, Tail(steps), names, n)
           [] Head(steps) = "slice" ->
                Zeros(ForgetOne.size * n)
                  \o BodyBytes(op, Tail(steps), names, n)
           [] OTHER -> BodyBytes(op, Tail(steps), names, n)

\* a fuse_in_header as the kernel writes it
HeaderBytes(len, opcode, h) ==
    LE(len, 4) \o LE(opcode, 4) \o LE(h.unique, 8) \o LE(h.nodeid, 8)
      \o LE(h.uid, 4) \o LE(h.gid, 4) \o LE(h.pid, 4) \o Zeros(4)

\* the header fields of a request: the kernel's id for it, the inode it is
\* about, and the user, group and process that made the call
KernelHeaders ==
    { [unique |-> 1, nodeid |-> 1, uid |-> 0, gid |-> 100, pid |-> 4242],
      [unique |-> 2, nodeid |-> 7, uid |-> 1000, gid |-> 1001, pid |-> 1] }

KernelHeader(unique, uid) ==
    [unique |-> unique, nodeid |-> 1, uid |-> uid, gid |-> uid, pid |-> 1]

\* the whole request the kernel writes for op: header.len is its length
RequestBytes(op, h, names, n) ==
    LET body == BodyBytes(op, ParseSteps(op), names, n)
    IN  HeaderBytes(HeaderSize + Len(body), OpcodeNumber[op], h) \o body

\* the requests of every supported opcode, with names of 1..MaxNameLen
\* bytes and 0..MaxPayload bytes (or forget entries) of trailing data
ValidRequests ==
    { [op |-> op, header |-> h, bytes |-> RequestBytes(op, h, <<n1, n2>>, n)] :
        op \in Operations, h \in KernelHeaders, n1 \in Names, n2 \in Names,
        n \in 0..MaxPayload }

ValidBuffers == { r.bytes : r \in ValidRequests }

\* ------------------------------------------------------ directory lists
\* most entries a filesystem offers to one directory reply
MaxAdds == 3

\* longest buffer an ArgumentIterator is created over, and the number of
\* calls made on one iterator
MaxArgLen == 4

MaxFetches == 3

\* number of setter calls one init hook makes
MaxCalls == 2

\* number of files created in the directory that is read
MaxListing == 3

\* threads sharing one InodeManager, and the calls they make in all
NumThreads == 2
MaxInodeCalls == 3

\* handles of one SharedFd alive at a time, and close() calls on them
MaxClones == 4
MaxCloses == 3

\* the buffer sizes a ReadDir request may announce
DirSizes == {0, 31, 32, 64, 79, 104}

\* entry names: 'a' repeated; with the 24-byte header they give records
\* that need seven, no and again seven bytes of padding
DirNames == { Fill(97, n) : n \in {1, 8, 9} }

FileTypes == {"Directory", "RegularFile", "Symlink"}

\* variant: the permission bits alone, without the S_IF* bits of the kind
mode_from_kind_and_perm_NoKind(kind, perm) == perm

\* mode_from_kind_and_perm: the libc S_IF* bits of the kind, or'ed with perm
mode_from_kind_and_perm(kind, perm) ==
    BitOr(CASE kind = "NamedPipe" -> 4096
            [] kind = "CharDevice" -> 8192
            [] kind = "BlockDevice" -> 24576
            [] kind = "Directory" -> 16384
            [] kind = "RegularFile" -> 32768
            [] kind = "Symlink" -> 40960
            [] kind = "Socket" -> 49152, perm)

EntListBuf_new(max_size) == [max_size |-> max_size, buf |-> <<>>]

\* variant: the fit test made with the unpadded length of the entry
EntListBuf_push_UnpaddedFit(list, ent) ==
    LET entlen == Len(ent[1]) + Len(ent[2])
        entsize == (entlen + 8 - 1) - ((entlen + 8 - 1) % 8)
        padlen == entsize - entlen
    IN  IF Len(list.buf) + entlen > list.max_size
        THEN [list |-> list, full |-> TRUE]
        ELSE [list |-> [list EXCEPT
                          !.buf = @ \o ent[1] \o ent[2] \o Zeros(padlen)],
              full |-> FALSE]

\* variant: the record is appended without its padding
EntListBuf_push_NoPadding(list, ent) ==
    LET entlen == Len(ent[1]) + Len(ent[2])
        entsize == (entlen + 8 - 1) - ((entlen + 8 - 1) % 8)
    IN  IF Len(list.buf) + entsize > list.max_size
        THEN [list |-> list, full |-> TRUE]
        ELSE [list |-> [list EXCEPT !.buf = @ \o ent[1] \o ent[2]],
              full |-> FALSE]

\* EntListBuf::push; `& !(size_of::<u64>() - 1)` clears the low three bits
EntListBuf_push(list, ent) ==
    LET entlen == Len(ent[1]) + Len(ent[2])
        entsize == (entlen + 8 - 1) - ((entlen + 8 - 1) % 8)
        padlen == entsize - entlen
    IN  IF Len(list.buf) + entsize > list.max_size
        THEN [list |-> list, full |-> TRUE]
        ELSE [list |-> [list EXCEPT
                          !.buf = @ \o ent[1] \o ent[2] \o Zeros(padlen)],
              full |-> FALSE]

\* the bytes of a fuse_dirent header: ino, off, namelen, typ
fuse_dirent(ino, off, namelen, typ) ==
    LE(ino, 8) \o LE(off, 8) \o LE(namelen, 4) \o LE(typ, 4)

DirEntry_new(ino, offset, kind, name) ==
    [ino |-> ino, offset |-> offset, kind |-> kind, name |-> name]

DirEntList_new(max_size) == EntListBuf_new(max_size)

\* the two slices DirEntList::push hands to EntListBuf::push
DirEntList_ent(ent) ==
    <<fuse_dirent(ent.ino, ent.offset, Len(ent.name),
                  mode_from_kind_and_perm(ent.kind, 0) \div 4096),
      ent.name>>

\* DirEntList::push
DirEntList_push(list, ent) == EntListBuf_push(list, DirEntList_ent(ent))

\* Response::new_directory, reached through From<DirEntList> for Response;
\* both assert!(buf.len() <= max_size)
new_directory(list) ==
    IF Len(list.buf) <= list.max_size
    THEN [tag |-> "Data", errno |-> 0, data |-> list.buf]
    ELSE [tag |-> "Panic", errno |-> 0, data |-> <<>>]

ReplyDirectory_new(unique, size) ==
    [reply |-> ReplyRaw_new(unique), data |-> DirEntList_new(size)]

\* ReplyDirectory::add
ReplyDirectory_add(rd, ino, offset, kind, name) ==
    LET p == DirEntList_push(rd.data, DirEntry_new(ino, offset, kind, name))
    IN  [rd |-> [rd EXCEPT !.data = p.list], full |-> p.full]

\* ReplyDirectory::ok: the messages written, or a failed assertion
ReplyDirectory_ok(rd) ==
    LET response == new_directory(rd.data)
    IN  IF response.tag = "Panic"
        THEN [panic |-> TRUE, wire |-> <<>>]
        ELSE [panic |-> FALSE, wire |-> send_ll(rd.reply, response, <<>>)]

\* ------------------------------------------------------- response bytes
\* INLINE_DATA_THRESHOLD: size_of::<u64>() * 4
INLINE_DATA_THRESHOLD == 32

\* size_of::<fuse_out_header>(): len u32, error i32, unique u64
OutHeaderSize == 16

\* fuse_out_header as it lies in memory (little endian, error in two's
\* complement)
fuse_out_header(len, error, unique) ==
    LE(len, 4) \o LE(error, 4) \o LE(unique, 8)

\* the errnos, payload lengths and payload bytes responses are built from
ResponseErrnos == {ENOENT, EIO, EACCES, ENOSYS, EPROTO}

PayloadSizes == {0, 1, 31, 32, 33, 40}

PayloadByte == 7

\* the argument of Response::new_data: a Vec<u8> (owned) or a &[u8]
DataInputs ==
    { [bytes |-> Fill(PayloadByte, n), owned |-> o] :
        n \in PayloadSizes, o \in BOOLEAN }

\* A Response: its variant, the errno of Error, the payload, how the payload
\* is held ("inline" in the SmallVec, in its "heap" buffer, or "borrowed"
\* from the caller) and whether building it copied the payload
Response_new_empty ==
    [tag |-> "Error", errno |-> 0, bytes |-> <<>>, repr |-> "none",
     copied |-> FALSE]

Response_new_error(error) ==
    [tag |-> "Error", errno |-> error, bytes |-> <<>>, repr |-> "none",
     copied |-> FALSE]

\* variant: a payload of exactly the threshold goes to the heap
Response_new_data_StrictThreshold(data) ==
    IF Len(data.bytes) < INLINE_DATA_THRESHOLD
    THEN [tag |-> "Data", errno |-> 0, bytes |-> data.bytes,
          repr |-> "inline", copied |-> TRUE]
    ELSE [tag |-> "Data", errno |-> 0, bytes |-> data.bytes,
          repr |-> "heap", copied |-> ~data.owned]

\* Response::new_data: up to the threshold the bytes are copied into the
\* inline SmallVec; above it `data.into()` makes the Vec (a move for a Vec,
\* an allocation and copy for a slice) whose buffer the SmallVec takes over
Response_new_data(data) ==
    IF Len(data.bytes) <= INLINE_DATA_THRESHOLD
    THEN [tag |-> "Data", errno |-> 0, bytes |-> data.bytes,
          repr |-> "inline", copied |-> TRUE]
    ELSE [tag |-> "Data", errno |-> 0, bytes |-> data.bytes,
          repr |-> "heap", copied |-> ~data.owned]

\* Response::new_slice
Response_new_slice(data) ==
    [tag |-> "Slice", errno |-> 0, bytes |-> data, repr |-> "borrowed",
     copied |-> FALSE]

\* Response::from_struct: SmallVec::from(&[u8]) copies the struct's bytes,
\* inline when they fit
Response_from_struct(data) ==
    [tag |-> "Data", errno |-> 0, bytes |-> data,
     repr |-> IF Len(data) <= INLINE_DATA_THRESHOLD THEN "inline" ELSE "heap",
     copied |-> TRUE]

\* variant: len counts the payload only
Response_with_iovec_PayloadLen(resp, unique) ==
    LET datalen == IF resp.tag = "Error" THEN 0 ELSE Len(resp.bytes)
        header  == fuse_out_header(datalen,
                                   IF resp.tag = "Error" THEN -resp.errno
                                   ELSE 0,
                                   unique)
    IN  IF resp.tag = "Error" THEN <<header>> ELSE <<header, resp.bytes>>

\* Response::with_iovec: the buffers handed to the writer
Response_with_iovec(resp, unique) ==
    LET datalen == IF resp.tag = "Error" THEN 0 ELSE Len(resp.bytes)
        header  == fuse_out_header(OutHeaderSize + datalen,
                                   IF resp.tag = "Error" THEN -resp.errno
                                   ELSE 0,
                                   unique)
    IN  IF resp.tag = "Error" THEN <<header>> ELSE <<header, resp.bytes>>

\* ------------------------------------------------------ file attributes
AllFileTypes ==
    {"NamedPipe", "CharDevice", "BlockDevice", "Directory", "RegularFile",
     "Symlink", "Socket"}

\* a SystemTime: a Duration after the epoch, or before it
SystemTime(before, secs, nanos) ==
    [before |-> before, dur |-> Duration_new(secs, nanos)]

\* perm is a u16: 0o644, 0o7777, and two values with bits above 0o7777
Perms == {0, 420, 4095, 33188, 32768}

\* file_meta::FileAttr
FileAttrs ==
    { [ino |-> ino, size |-> size, blocks |-> 1,
       atime |-> SystemTime(FALSE, 1, 5), mtime |-> SystemTime(FALSE, 0, 0),
       ctime |-> SystemTime(TRUE, 2, 0),
       kind |-> kind, perm |-> perm, nlink |-> 1, uid |-> 1000,
       gid |-> 1000, rdev |-> 0, blksize |-> 512] :
        ino \in {1, 2}, size \in {0, 4096}, kind \in AllFileTypes,
        perm \in Perms }

NoFileAttr ==
    [ino |-> 0, size |-> 0, blocks |-> 0,
     atime |-> SystemTime(FALSE, 0, 0), mtime |-> SystemTime(FALSE, 0, 0),
     ctime |-> SystemTime(FALSE, 0, 0),
     kind |-> "RegularFile", perm |-> 0, nlink |-> 0, uid |-> 0,
     gid |-> 0, rdev |-> 0, blksize |-> 0]

\* time_from_system_time: signed seconds since the epoch, and nanoseconds
time_from_system_time(system_time) ==
    IF system_time.before
    THEN [secs |-> -system_time.dur.secs, nanos |-> system_time.dur.nanos]
    ELSE [secs |-> system_time.dur.secs, nanos |-> system_time.dur.nanos]

\* fuse_attr_from_attr
fuse_attr_from_attr(attr) ==
    [ino       |-> attr.ino,
     size      |-> attr.size,
     blocks    |-> attr.blocks,
     atime     |-> time_from_system_time(attr.atime).secs,
     mtime     |-> time_from_system_time(attr.mtime).secs,
     ctime     |-> time_from_system_time(attr.ctime).secs,
     atimensec |-> time_from_system_time(attr.atime).nanos,
     mtimensec |-> time_from_system_time(attr.mtime).nanos,
     ctimensec |-> time_from_system_time(attr.ctime).nanos,
     mode      |-> mode_from_kind_and_perm(attr.kind, attr.perm),
     nlink     |-> attr.nlink,
     uid       |-> attr.uid,
     gid       |-> attr.gid,
     rdev      |-> attr.rdev,
     blksize   |-> attr.blksize,
     padding   |-> 0]

\* impl From<&FileAttr> for Attr
Attr_from(attr) == [attr |-> fuse_attr_from_attr(attr)]

\* kernel_interface::fuse_attr as it lies in memory (88 bytes)
fuse_attr_bytes(a) ==
    LE(a.ino, 8) \o LE(a.size, 8) \o LE(a.blocks, 8)
      \o LE(a.atime, 8) \o LE(a.mtime, 8) \o LE(a.ctime, 8)
      \o LE(a.atimensec, 4) \o LE(a.mtimensec, 4) \o LE(a.ctimensec, 4)
      \o LE(a.mode, 4) \o LE(a.nlink, 4) \o LE(a.uid, 4) \o LE(a.gid, 4)
      \o LE(a.rdev, 4) \o LE(a.blksize, 4) \o LE(a.padding, 4)

\* the attribute time-to-live passed to Response::new_attr
AttrTtl == Duration_new(1, 0)

\* Response::new_attr: fuse_attr_out is attr_valid, attr_valid_nsec, dummy
\* and the fuse_attr
Response_new_attr(ttl, attr) ==
    Response_from_struct(LE(ttl.secs, 8) \o LE(ttl.nanos, 4) \o LE(0, 4)
                           \o fuse_attr_bytes(attr.attr))

\* --------------------------------------------------------- InodeManager
\* kernel_interface::FUSE_ROOT_ID
FUSE_ROOT_ID == 1

\* the first inode number create hands out: AtomicU64::new(2)
FirstIno == 2

\* a path is the sequence of its bytes; Slash is b'/'
Slash == 47

RootPath == <<Slash>>

\* PathBuf::from(base).join(name), as a string: an absolute name replaces
\* the base, otherwise a separator is put between the two unless the base
\* already ends with one
PathBuf_join(base, name) ==
    IF name # <<>> /\ name[1] = Slash THEN name
    ELSE IF base = <<>> \/ base[Len(base)] = Slash THEN base \o name
    ELSE base \o <<Slash>> \o name

\* Inode::new
Inode_new(ino, parent, name, full_path, kind) ==
    [ino |-> ino, parent |-> parent, name |-> name, full_path |-> full_path,
     kind |-> kind]

NoInode == Inode_new(0, 0, <<>>, <<>>, "RegularFile")

\* InodeManager::new: the root inode in both maps, next_ino 2
InodeManager_new ==
    [inodes |-> (FUSE_ROOT_ID :> Inode_new(FUSE_ROOT_ID, FUSE_ROOT_ID, <<>>,
                                           RootPath, "Directory")),
     path_index |-> (RootPath :> FUSE_ROOT_ID),
     next_ino |-> FirstIno]

\* HashMap::insert: the value of an existing key is replaced
HashMap_insert(map, key, value) ==
    [k \in DOMAIN map \cup {key} |-> IF k = key THEN value ELSE map[k]]

\* one read of the inode table under its read lock: inodes.get(&ino).cloned()
inodes_get(im, ino) ==
    IF ino \in DOMAIN im.inodes
    THEN [ok |-> TRUE, inode |-> im.inodes[ino]]
    ELSE [ok |-> FALSE, inode |-> NoInode]

\* one read of the path index under its read lock
path_index_get(im, full_path) ==
    IF full_path \in DOMAIN im.path_index
    THEN [ok |-> TRUE, ino |-> im.path_index[full_path]]
    ELSE [ok |-> FALSE, ino |-> 0]

\* variant: the counter is read without being advanced
next_ino_fetch_add_NoAdvance(im) == [im |-> im, ino |-> im.next_ino]

\* next_ino.fetch_add(1, SeqCst): one atomic step
next_ino_fetch_add(im) ==
    [im |-> [im EXCEPT !.next_ino = @ + 1], ino |-> im.next_ino]

\* variant: the path index is written first, the inode table second
create_insert_IndexFirst(im, inode, step) ==
    IF step = 1
    THEN [im EXCEPT !.path_index = HashMap_insert(@, inode.full_path,
                                                  inode.ino)]
    ELSE [im EXCEPT !.inodes = HashMap_insert(@, inode.ino, inode)]

\* the two insertions of create, each under its own write lock: first the
\* inode table, then the path index
create_insert(im, inode, step) ==
    IF step = 1
    THEN [im EXCEPT !.inodes = HashMap_insert(@, inode.ino, inode)]
    ELSE [im EXCEPT !.path_index = HashMap_insert(@, inode.full_path,
                                                  inode.ino)]

\* InodeManagerInner::get
InodeManager_get(im, ino) == inodes_get(im, ino)

\* InodeManagerInner::lookup run without interruption
InodeManager_lookup(im, parent_ino, name) ==
    LET parent_inode == inodes_get(im, parent_ino)
        idx == path_index_get(im, PathBuf_join(parent_inode.inode.full_path,
                                               name))
    IN  IF ~parent_inode.ok \/ ~idx.ok THEN [ok |-> FALSE, inode |-> NoInode]
        ELSE inodes_get(im, idx.ino)

\* InodeManagerInner::create run without interruption
InodeManager_create(im, parent, name, full_path, kind) ==
    LET f == next_ino_fetch_add(im)
        inode_new == Inode_new(f.ino, parent, name, full_path, kind)
    IN  [im |-> create_insert(create_insert(f.im, inode_new, 1),
                              inode_new, 2),
         inode |-> inode_new]

\* ------------------------------------------------------ ListStatusCache
ListStatusCache_new == [p \in {} |-> <<>>]

\* ListStatusCache::get
ListStatusCache_get(cache, path) ==
    IF path \in DOMAIN cache THEN [some |-> TRUE, entries |-> cache[path]]
    ELSE [some |-> FALSE, entries |-> <<>>]

\* ListStatusCache::append: push to the directory's Vec, or start one
ListStatusCache_append(cache, path, new_file) ==
    IF path \in DOMAIN cache
    THEN [cache EXCEPT ![path] = Append(@, new_file)]
    ELSE HashMap_insert(cache, path, <<new_file>>)

\* ------------------------------------------------------ UringFilesystem
UringFilesystem_new(inode_manager, ls_cache) ==
    [inode_manager |-> inode_manager, ls_cache |-> ls_cache]

\* UringFilesystem::create: the new file gets an inode and a place at the
\* end of its parent's listing
UringFilesystem_create(fs, parent, name) ==
    LET parent_node == InodeManager_get(fs.inode_manager, parent)
        full_path == PathBuf_join(parent_node.inode.full_path, name)
        c == InodeManager_create(fs.inode_manager, parent, name, full_path,
                                 "RegularFile")
    IN  IF ~parent_node.ok THEN [fs |-> fs, errno |-> ENOENT]
        ELSE [fs |-> [inode_manager |-> c.im,
                      ls_cache |-> ListStatusCache_append(
                                     fs.ls_cache,
                                     parent_node.inode.full_path, name)],
              errno |-> 0]

\* the name of the entry readdir adds first
Dot == <<46>>

\* the `for (i, entry) in entries.iter().enumerate().skip(offset)` loop of
\* readdir from the 1-based position i on: every entry the inode manager
\* knows is added with offset (i as i64) + offset + 2, the result of add is
\* dropped, and entry_count counts the calls
RECURSIVE readdir_entries(_, _, _, _, _, _)
readdir_entries(fs, ino, offset, entries, i, acc) ==
    IF i > Len(entries) THEN acc
    ELSE LET l == InodeManager_lookup(fs.inode_manager, ino, entries[i])
         IN  IF l.ok
             THEN readdir_entries(
                    fs, ino, offset, entries, i + 1,
                    [reply |-> ReplyDirectory_add(
                                 acc.reply, l.inode.ino, (i - 1) + offset + 2,
                                 l.inode.kind, l.inode.name).rd,
                     entry_count |-> acc.entry_count + 1])
             ELSE readdir_entries(fs, ino, offset, entries, i + 1, acc)

\* UringFilesystem::readdir: what the reply holds and how it is completed
UringFilesystem_readdir(fs, ino, offset, reply) ==
    LET dir_inode == InodeManager_get(fs.inode_manager, ino)
        first == IF offset = 0
                 THEN [reply |-> ReplyDirectory_add(reply, ino, 1,
                                                    "Directory", Dot).rd,
                       entry_count |-> 1]
                 ELSE [reply |-> reply, entry_count |-> 0]
        cached == ListStatusCache_get(fs.ls_cache, dir_inode.inode.full_path)
        done == IF cached.some
                THEN readdir_entries(fs, ino, offset, cached.entries,
                                     offset + 1, first)
                ELSE first
    IN  IF ~dir_inode.ok
        THEN [completed |-> "error", errno |-> ENOENT, data |-> <<>>]
        ELSE IF done.entry_count > 0
        THEN [completed |-> "ok", errno |-> 0, data |-> done.reply.data.buf]
        ELSE [completed |-> "error", errno |-> ENOENT, data |-> <<>>]

\* the size of a fuse_dirent header: ino u64, off i64, namelen u32, typ u32
DirentSize == 24

\* the entries a kernel reads out of a directory reply: name and offset of
\* each fuse_dirent, records being padded to eight bytes
RECURSIVE Dirents(_)
Dirents(buf) ==
    IF Len(buf) < DirentSize THEN <<>>
    ELSE LET off == FromLE(SubSeq(buf, 9, 16))
             namelen == FromLE(SubSeq(buf, 17, 20))
             entlen == DirentSize + namelen
             entsize == (entlen + 8 - 1) - ((entlen + 8 - 1) % 8)
         IN  <<[name |-> SubSeq(buf, DirentSize + 1, DirentSize + namelen),
                offset |-> off,
                ino |-> FromLE(SubSeq(buf, 1, 8))]>>
               \o Dirents(SubSeq(buf, entsize + 1, Len(buf)))

\* ------------------------------------------------------------- SharedFd
\* A SharedFd and everything that refers to it: `strong` is the count of
\* the Rc<Inner>, `state` the UringState (with Waiting's Option<Waker>),
\* `op` the close Op held by Closing, `closes` the closes of the descriptor
\* so far (a submitted close op or a synchronous close, with the number of
\* other handles at that moment), `fut` the futures returned by close().
Futures == 1..MaxCloses

UringState(tag, waker) == [tag |-> tag, waker |-> waker]

NoFuture == [st |-> "none", woken |-> FALSE]

\* SharedFd::new: one handle, UringState::Init
SharedFd_new ==
    [strong |-> 1, users |-> 1, state |-> UringState("Init", FALSE),
     op |-> "none", closes |-> <<>>, inner |-> "alive",
     fut |-> [f \in Futures |-> NoFuture]]

\* the descriptor is closed once more: by a close op when Op::close
\* succeeded, by dropping File::from_raw_fd(fd) when it failed
CloseFd(s, submitted) ==
    [s EXCEPT !.closes = Append(@, [how |-> IF submitted THEN "op"
                                            ELSE "sync",
                                    others |-> s.strong - 1])]

\* impl Drop for Inner: in Init and Waiting the descriptor is closed, by
\* an op if one can be submitted and synchronously otherwise
Inner_drop(s, submitted) ==
    IF s.state.tag \in {"Init", "Waiting"}
    THEN [CloseFd([s EXCEPT !.strong = 1], submitted)
            EXCEPT !.strong = 0, !.inner = "dropped"]
    ELSE [s EXCEPT !.inner = "dropped"]

\* a handle goes out of scope: the Rc count drops, and Inner with the last
Rc_drop(s, submitted) ==
    LET t == [s EXCEPT !.strong = @ - 1]
    IN  IF t.strong = 0 THEN Inner_drop(t, submitted) ELSE t

\* one poll of the poll_fn in Inner::closed
Inner_closed(s) ==
    IF s.state.tag \in {"Init", "Waiting"}
    THEN [s |-> [s EXCEPT !.state = UringState("Waiting", TRUE)],
          ready |-> FALSE]
    ELSE IF s.state.tag = "Closing"
    THEN IF s.op = "complete"
         THEN [s |-> [s EXCEPT !.state = UringState("Closed", FALSE)],
               ready |-> TRUE]
         ELSE [s |-> s, ready |-> FALSE]
    ELSE [s |-> s, ready |-> TRUE]

\* one poll of the future of SharedFd::close.  The first poll runs the body
\* up to the await: if this handle is the only one (Rc::get_mut) the close
\* op is submitted, or, when that fails, the descriptor is closed and the
\* function returns.  Every poll then polls closed().  When the function
\* returns, `this` is dropped.  `submitted` and `submitted_in_drop` say
\* whether Op::close succeeds in close and in Inner's drop.
SharedFd_close(s, f, submitted, submitted_in_drop) ==
    LET first == s.fut[f].st = "created"
        unique == s.strong = 1
        finished(t) == Rc_drop([t EXCEPT !.fut[f] = [st |-> "done",
                                                     woken |-> FALSE]],
                               submitted_in_drop)
    IN  IF first /\ unique /\ ~submitted
        THEN finished(CloseFd(s, FALSE))
        ELSE LET s1 == IF first /\ unique
                       THEN [CloseFd(s, TRUE) EXCEPT
                               !.state = UringState("Closing", FALSE),
                               !.op = "inflight"]
                       ELSE s
                 p == Inner_closed(s1)
             IN  IF p.ready THEN finished(p.s)
                 ELSE [p.s EXCEPT !.fut[f] = [st |-> "pending",
                                              woken |-> FALSE]]

\* ---------------------------------------------------------------- state
VARIABLES
    se,      \* the Session: allowed, session_owner, proto_major,
             \* proto_minor, initialized, destroyed
    pc,      \* position of the session loop: "read", "dispatch", "done"
    req,     \* the request read from the device (NoReq between requests)
    pre,     \* the Session as it was when `req` was read
    called,  \* the Filesystem method or hook the last step invoked
    cfg,     \* the KernelConfig as the init hook left it (NoConfig otherwise)
    out,     \* the messages the last step wrote to the channel
    sends,   \* per request id: how many messages the channel has carried
    track,   \* per request id: what became of the request and its Reply
    held,    \* the Reply objects a filesystem has kept for later
    dec,     \* a receive buffer and what decoding it gave
    dir,     \* a ReplyDirectory being filled, and its last add
    rsp,     \* a Response being built, and the iovec it serialised to
    arg,     \* an ArgumentIterator, and the result of its last fetch
    kc,      \* a KernelConfig in an init hook, and its last setter call
    rdr,     \* a directory being read page by page, and what the kernel got
    imt,     \* an InodeManager and the threads calling into it
    sfd      \* a SharedFd: its clones, its state and what happened to the fd

vars == <<se, pc, req, pre, called, cfg, out, sends, track, held, dec, dir, rsp, arg, kc,
         rdr, imt, sfd>>

\* the variables of the session loop
sessionVars == <<se, pc, req, pre, called, cfg, out, sends, track, held>>

NoReq ==
    [unique |-> 0, uid |-> 0, opcode |-> "NONE", argsOk |-> TRUE,
     major |-> 0, minor |-> 0, flags |-> 0, max_readahead |-> 0,
     unrestricted |-> FALSE]

\* operations whose `parse` arm fetches nothing that can be missing
NeverShort == {"GetAttr", "ReadLink", "StatFs", "Destroy", "NotifyReply"}

\* the request buffers a kernel may deliver with request id u
Requests(u) ==
    { [unique |-> u, uid |-> uid, opcode |-> oc, argsOk |-> ok,
       major |-> mj, minor |-> mn, flags |-> fl, max_readahead |-> InitReadahead,
       unrestricted |-> unr] :
         uid \in Uids, oc \in {"Init"}, ok \in BOOLEAN, mj \in Majors,
         mn \in Minors, fl \in KernelCaps, unr \in {FALSE} }
    \cup
    { [unique |-> u, uid |-> uid, opcode |-> oc, argsOk |-> ok,
       major |-> 0, minor |-> 0, flags |-> 0, max_readahead |-> 0,
       unrestricted |-> unr] :
         uid \in Uids, oc \in {"IoCtl"}, ok \in BOOLEAN, unr \in BOOLEAN }
    \cup
    { [unique |-> u, uid |-> uid, opcode |-> oc, argsOk |-> ok,
       major |-> 0, minor |-> 0, flags |-> 0, max_readahead |-> 0,
       unrestricted |-> FALSE] :
         uid \in Uids, oc \in Opcodes \ ({"Init", "IoCtl"} \cup NeverShort),
         ok \in BOOLEAN }
    \cup
    { [unique |-> u, uid |-> uid, opcode |-> oc, argsOk |-> TRUE,
       major |-> 0, minor |-> 0, flags |-> 0, max_readahead |-> 0,
       unrestricted |-> FALSE] :
         uid \in Uids, oc \in NeverShort }

\* a filesystem that accepts Init and completes every Reply at once
PlainHook == [err |-> 0, add |-> 0, act |-> "ok", acterr |-> ENOENT]

\* what the filesystem may do if the dispatch of r calls it
Hooks(s, r) ==
    LET probe == dispatch_req(s, r, PlainHook).called
    IN  IF probe = "init"
        THEN { [PlainHook EXCEPT !.err = e, !.add = a] :
                 e \in {0} \cup FsErrnos, a \in HookCaps }
        ELSE IF probe \in {"none", "destroy", "forget", "batch_forget"}
        THEN {PlainHook}
        ELSE { [PlainHook EXCEPT !.act = a, !.acterr = e] :
                 a \in FsActs, e \in FsErrnos }

\* the messages of `wire` counted into the per-id totals
Count(totals, wire) ==
    [u \in Uniques |->
       totals[u] + Cardinality({i \in DOMAIN wire : wire[i].unique = u})]

\* no buffer is being decoded
DecIdle ==
    [orig |-> <<>>, data |-> <<>>, stage |-> "idle",
     made |-> [op |-> UnknownOpcode, header |-> NoHeader],
     via |-> "idle",
     tried |-> [tag |-> "none", header |-> NoHeader, data |-> <<>>],
     result |-> [tag |-> "none", op |-> UnknownOpcode, args |-> <<>>,
                 header |-> NoHeader]]

\* no Response under construction
RspIdle ==
    [stage |-> "idle", unique |-> 0, ctor |-> "none", owned |-> FALSE,
     attr |-> NoFileAttr, resp |-> Response_new_empty, iov |-> <<>>]

\* no ArgumentIterator in use
ArgIdle ==
    [stage |-> "idle", it |-> ArgumentIterator_new(<<>>, 0),
     pre |-> ArgumentIterator_new(<<>>, 0),
     last |-> [op |-> "none", tag |-> "None", val |-> <<>>, size |-> 1,
               align |-> 1, count |-> 0],
     calls |-> 0]

\* no init hook running
KcIdle ==
    [stage |-> "idle", config |-> KernelConfig_new(0, 0),
     pre |-> KernelConfig_new(0, 0),
     last |-> [op |-> "none", req |-> 0, ok |-> TRUE, val |-> 0],
     reply |-> fuse_init_out(0, KernelConfig_new(0, 0)),
     calls |-> 0]

\* no directory is being read
RdrIdle ==
    [stage |-> "idle",
     fs |-> UringFilesystem_new(InodeManager_new, ListStatusCache_new),
     size |-> 0, offset |-> 0, seen |-> <<>>, dots |-> 0, last |-> <<>>,
     completed |-> "none", calls |-> 0]

\* no thread is in the InodeManager
ImtIdle ==
    [stage |-> "idle", im |-> InodeManager_new,
     th |-> [t \in 1..NumThreads |->
               [pc |-> "idle", op |-> "none", parent |-> 0, name |-> <<>>,
                inode |-> NoInode, ino |-> 0,
                ret |-> [ok |-> FALSE, inode |-> NoInode]]],
     handed |-> <<>>, calls |-> 0]

\* no handle of the SharedFd is left and no close future was made
SfdIdle ==
    [SharedFd_new EXCEPT !.strong = 0, !.users = 0, !.inner = "dropped"]

\* no directory reply is being filled
DirIdle ==
    [rd |-> ReplyDirectory_new(0, 0), prev |-> <<>>, ent |-> <<<<>>, <<>>>>,
     full |-> FALSE, stage |-> "idle", adds |-> 0, wire |-> <<>>]

\* Session::new: nothing negotiated, neither initialized nor destroyed
Session_new ==
    { [allowed |-> a, session_owner |-> o,
       proto_major |-> 0, proto_minor |-> 0,
       initialized |-> FALSE, destroyed |-> FALSE] :
         a \in SessionACL, o \in SessionOwners }

\* the session loop before its first read
SessionIdle ==
    /\ se \in Session_new
    /\ pc = "read"
    /\ req = NoReq
    /\ pre = se
    /\ called = "none"
    /\ cfg = NoConfig
    /\ out = <<>>
    /\ sends = [u \in Uniques |-> 0]
    /\ track = [u \in Uniques |-> "unused"]
    /\ held = {}

Init ==
    /\ SessionIdle
    /\ rdr = RdrIdle /\ imt = ImtIdle /\ sfd = SfdIdle
    /\ dec = DecIdle
    /\ dir = DirIdle
    /\ rsp = RspIdle /\ arg = ArgIdle /\ kc = KcIdle

\* the session loop reads one request buffer; the kernel numbers its
\* requests in increasing order
Receive ==
    /\ pc = "read"
    /\ \E u \in Uniques :
         /\ track[u] = "unused"
         /\ \A v \in Uniques : v < u => track[v] # "unused"
         /\ \E r \in Requests(u) : req' = r
    /\ pc' = "dispatch"
    /\ pre' = se
    /\ UNCHANGED <<se, called, cfg, out, sends, track, held, dec, dir, rsp, arg, kc, rdr, imt, sfd>>

\* Request::dispatch on the request just read
Dispatch ==
    /\ pc = "dispatch"
    /\ \E hook \in Hooks(se, req) :
         LET d == dispatch(se, req, hook)
         IN  /\ se' = d.se
             /\ called' = d.called
             /\ cfg' = d.config
             /\ out' = d.fs.wire
             /\ sends' = Count(sends, d.fs.wire)
             /\ track' = [track EXCEPT ![req.unique] = d.fs.fate]
             /\ held' = held \cup d.fs.kept
    /\ pc' = "done"
    /\ UNCHANGED <<req, pre, dec, dir, rsp, arg, kc, rdr, imt, sfd>>

\* a filesystem completes a Reply it kept, with success or an errno
Complete ==
    /\ pc = "read"
    /\ \E reply \in held : \E how \in {"ok", "error"} : \E e \in FsErrnos :
         LET wire == IF how = "ok" THEN Reply_ok(reply, <<>>)
                     ELSE ReplyRaw_error(reply, e, <<>>)
         IN  /\ held' = held \ {reply}
             /\ out' = wire
             /\ sends' = Count(sends, wire)
             /\ track' = [track EXCEPT ![reply.unique] = "completed"]
    /\ pc' = "done"
    /\ UNCHANGED <<se, req, pre, called, cfg, dec, dir, rsp, arg, kc, rdr, imt, sfd>>

\* a filesystem discards a Reply it kept without completing it
Abandon ==
    /\ pc = "read"
    /\ \E reply \in held :
         LET wire == ReplyRaw_drop(reply, <<>>)
         IN  /\ held' = held \ {reply}
             /\ out' = wire
             /\ sends' = Count(sends, wire)
             /\ track' = [track EXCEPT ![reply.unique] = "abandoned"]
    /\ pc' = "done"
    /\ UNCHANGED <<se, req, pre, called, cfg, dec, dir, rsp, arg, kc, rdr, imt, sfd>>

\* the session loop goes back to reading the device
Loop ==
    /\ pc = "done"
    /\ pc' = "read"
    /\ req' = NoReq
    /\ pre' = se
    /\ called' = "none"
    /\ cfg' = NoConfig
    /\ out' = <<>>
    /\ UNCHANGED <<se, sends, track, held, dec, dir, rsp, arg, kc, rdr, imt, sfd>>

\* receive buffers that are not a whole request: one cut inside the
\* header, one cut inside the arguments
ShortBuffers(u) ==
    { SubSeq(b, 1, n) :
        b \in { RequestBytes("Lookup", KernelHeader(u, uid), <<nm, nm>>, 0) :
                  uid \in Uids, nm \in Names },
        n \in {HeaderSize - 1, HeaderSize + 1} }

\* the session loop reads a buffer for which Request::new returns None:
\* the error is logged, nothing is dispatched, the loop reads on
ReceiveShort ==
    /\ pc = "read"
    /\ \E u \in Uniques :
         /\ track[u] = "unused"
         /\ \A v \in Uniques : v < u => track[v] # "unused"
         /\ \E data \in ShortBuffers(u) :
              LET r == Request_new(data)
              IN  /\ ~r.some
                  /\ track' = [track EXCEPT ![u] = r.err]
         /\ req' = [NoReq EXCEPT !.unique = u]
    /\ pc' = "done"
    /\ pre' = se
    /\ out' = <<>>
    /\ UNCHANGED <<se, called, cfg, sends, held, dec, dir, rsp, arg, kc, rdr, imt, sfd>>

Next == Receive \/ ReceiveShort \/ Dispatch \/ Complete \/ Abandon \/ Loop

Spec == Init /\ [][Next]_vars

\* ----------------------------------------------- decoding a buffer
\* a request as the kernel wrote it lies in the receive buffer
InitDecode ==
    /\ SessionIdle
    /\ rdr = RdrIdle /\ imt = ImtIdle /\ sfd = SfdIdle
    /\ se.allowed = "All"
    /\ dir = DirIdle
    /\ rsp = RspIdle /\ arg = ArgIdle /\ kc = KcIdle
    /\ dec \in { [DecIdle EXCEPT !.orig = r.bytes, !.data = r.bytes,
                                 !.made = [op |-> r.op, header |-> r.header],
                                 !.stage = "built"] :
                  r \in ValidRequests }

\* only the first n bytes of the request reach the decoder
Truncate ==
    /\ dec.stage = "built"
    /\ \E n \in 0..(Len(dec.orig) - 1) :
         dec' = [dec EXCEPT !.data = SubSeq(dec.orig, 1, n), !.stage = "cut"]
    /\ UNCHANGED <<sessionVars, dir, rsp, arg, kc, rdr, imt, sfd>>

\* the first n bytes of data, then the bytes b, then the rest of data
Overwrite(data, n, b) ==
    SubSeq(data, 1, n) \o b \o SubSeq(data, n + Len(b) + 1, Len(data))

\* header.len values a malformed request may carry
ForgedLens(len) == {0, HeaderSize - 1, HeaderSize, len + 1} \ {len}

\* a request of the right length whose header.len says something else
ForgeLen ==
    /\ dec.stage = "built"
    /\ \E n \in ForgedLens(Len(dec.orig)) :
         dec' = [dec EXCEPT !.data = Overwrite(dec.orig, 0, LE(n, 4)),
                            !.stage = "forged_len"]
    /\ UNCHANGED <<sessionVars, dir, rsp, arg, kc, rdr, imt, sfd>>

\* a Write or SetXAttr whose size field differs from the number of bytes
\* that follow
ForgeSize ==
    /\ dec.stage = "built"
    /\ dec.made.op \in {"Write", "SetXAttr"}
    /\ \E n \in 0..(MaxPayload + 1) :
         LET at == HeaderSize + ArgStruct[dec.made.op].field
         IN  /\ LE(n, 4) # SubSeq(dec.orig, at + 1, at + 4)
             /\ dec' = [dec EXCEPT !.data = Overwrite(dec.orig, at, LE(n, 4)),
                                   !.stage = "forged_size"]
    /\ UNCHANGED <<sessionVars, dir, rsp, arg, kc, rdr, imt, sfd>>

\* Request::new and AnyRequest::operation on the buffer
DecodeBuffer ==
    /\ dec.stage \in {"built", "cut", "forged_len", "forged_size"}
    /\ dec' = [dec EXCEPT !.tried = AnyRequest_try_from(dec.data),
                          !.result = Decode(dec.data),
                          !.via = dec.stage,
                          !.stage = "decoded"]
    /\ UNCHANGED <<sessionVars, dir, rsp, arg, kc, rdr, imt, sfd>>

NextDecode == Truncate \/ ForgeLen \/ ForgeSize \/ DecodeBuffer

SpecDecode == InitDecode /\ [][NextDecode]_vars

\* ------------------------------------------- filling a directory reply
\* ReadDir hands the filesystem a ReplyDirectory of the requested size
InitDir ==
    /\ SessionIdle
    /\ rdr = RdrIdle /\ imt = ImtIdle /\ sfd = SfdIdle
    /\ se.allowed = "All"
    /\ dec = DecIdle
    /\ rsp = RspIdle /\ arg = ArgIdle /\ kc = KcIdle
    /\ dir \in { [DirIdle EXCEPT !.rd = ReplyDirectory_new(1, size),
                                 !.stage = "open"] : size \in DirSizes }

\* the filesystem offers one more entry
DirAdd ==
    /\ dir.stage \in {"open", "added"}
    /\ dir.adds < MaxAdds
    /\ \E kind \in FileTypes : \E name \in DirNames :
         LET ino == dir.adds + 2
             offset == dir.adds + 1
             a == ReplyDirectory_add(dir.rd, ino, offset, kind, name)
         IN  dir' = [dir EXCEPT
                       !.rd = a.rd,
                       !.prev = dir.rd.data.buf,
                       !.ent = DirEntList_ent(
                                 DirEntry_new(ino, offset, kind, name)),
                       !.full = a.full,
                       !.stage = "added",
                       !.adds = @ + 1]
    /\ UNCHANGED <<sessionVars, dec, rsp, arg, kc, rdr, imt, sfd>>

\* the filesystem sends the directory reply
DirOk ==
    /\ dir.stage \in {"open", "added"}
    /\ LET r == ReplyDirectory_ok(dir.rd)
       IN  dir' = [dir EXCEPT
                     !.stage = IF r.panic THEN "panic" ELSE "sent",
                     !.wire = r.wire]
    /\ UNCHANGED <<sessionVars, dec, rsp, arg, kc, rdr, imt, sfd>>

NextDir == DirAdd \/ DirOk

SpecDir == InitDir /\ [][NextDir]_vars

\* ------------------------------------------- building and sending a Response
\* ReplyRaw::send_ll_mut builds nothing itself: the callers construct a
\* Response and with_iovec serialises it for the request's unique id
InitResponse ==
    /\ SessionIdle
    /\ rdr = RdrIdle /\ imt = ImtIdle /\ sfd = SfdIdle
    /\ dec = DecIdle /\ dir = DirIdle /\ arg = ArgIdle /\ kc = KcIdle
    /\ rsp \in { [RspIdle EXCEPT !.stage = "start", !.unique = u] :
                   u \in Uniques }

RspBuilt(ctor, resp) ==
    rsp' = [rsp EXCEPT !.stage = "built", !.ctor = ctor, !.resp = resp]

RspNewEmpty ==
    /\ rsp.stage = "start"
    /\ RspBuilt("empty", Response_new_empty)
    /\ UNCHANGED <<sessionVars, dec, dir, arg, kc, rdr, imt, sfd>>

RspNewError ==
    /\ rsp.stage = "start"
    /\ \E error \in ResponseErrnos : RspBuilt("error", Response_new_error(error))
    /\ UNCHANGED <<sessionVars, dec, dir, arg, kc, rdr, imt, sfd>>

RspNewData ==
    /\ rsp.stage = "start"
    /\ \E data \in DataInputs :
         rsp' = [rsp EXCEPT !.stage = "built", !.ctor = "data",
                            !.owned = data.owned,
                            !.resp = Response_new_data(data)]
    /\ UNCHANGED <<sessionVars, dec, dir, arg, kc, rdr, imt, sfd>>

RspNewSlice ==
    /\ rsp.stage = "start"
    /\ \E n \in PayloadSizes :
         RspBuilt("slice", Response_new_slice(Fill(PayloadByte, n)))
    /\ UNCHANGED <<sessionVars, dec, dir, arg, kc, rdr, imt, sfd>>

RspNewAttr ==
    /\ rsp.stage = "start"
    /\ \E attr \in FileAttrs :
         rsp' = [rsp EXCEPT !.stage = "built", !.ctor = "attr",
                            !.attr = attr,
                            !.resp = Response_new_attr(AttrTtl,
                                                       Attr_from(attr))]
    /\ UNCHANGED <<sessionVars, dec, dir, arg, kc, rdr, imt, sfd>>

RspSend ==
    /\ rsp.stage = "built"
    /\ rsp' = [rsp EXCEPT !.stage = "sent",
                          !.iov = Response_with_iovec(rsp.resp, rsp.unique)]
    /\ UNCHANGED <<sessionVars, dec, dir, arg, kc, rdr, imt, sfd>>

NextResponse ==
    RspNewEmpty \/ RspNewError \/ RspNewData \/ RspNewSlice \/ RspNewAttr
      \/ RspSend

SpecResponse == InitResponse /\ [][NextResponse]_vars

\* ------------------------------------------- fetching from an iterator
\* the buffers an ArgumentIterator is created over: bytes 0 (NUL) and 97,
\* at an address that is a multiple of 8 plus the start offset
RECURSIVE ArgBuffers(_)
ArgBuffers(n) ==
    IF n = 0 THEN {<<>>}
    ELSE ArgBuffers(n - 1)
           \cup { <<b>> \o s : b \in {0, 97},
                               s \in { t \in ArgBuffers(n - 1) :
                                         Len(t) = n - 1 } }

ArgStartOffsets == {0, 1}

\* the T of fetch::<T> and fetch_slice::<T>: size_of and align_of
ArgTypes ==
    { [size |-> 1, align |-> 1], [size |-> 2, align |-> 2],
      [size |-> 4, align |-> 4] }

SliceCounts == {0, 1, 2}

InitArgs ==
    /\ SessionIdle
    /\ rdr = RdrIdle /\ imt = ImtIdle /\ sfd = SfdIdle
    /\ dec = DecIdle /\ dir = DirIdle /\ rsp = RspIdle /\ kc = KcIdle
    /\ arg \in { [ArgIdle EXCEPT !.stage = "ready",
                                 !.it = ArgumentIterator_new(data, off),
                                 !.pre = ArgumentIterator_new(data, off)] :
                   data \in ArgBuffers(MaxArgLen), off \in ArgStartOffsets }

\* one call on the iterator; a panic ends the thread
ArgCalled(op, t, count, r) ==
    arg' = [stage |-> IF r.tag = "Panic" THEN "panicked" ELSE "ready",
            it    |-> r.it,
            pre   |-> arg.it,
            last  |-> [op |-> op, tag |-> r.tag, val |-> r.val,
                       size |-> t.size, align |-> t.align, count |-> count],
            calls |-> arg.calls + 1]

ArgFetch ==
    /\ arg.stage = "ready" /\ arg.calls < MaxFetches
    /\ \E t \in ArgTypes :
         ArgCalled("fetch", t, 1, fetch(arg.it, t.size, t.align))
    /\ UNCHANGED <<sessionVars, dec, dir, rsp, kc, rdr, imt, sfd>>

ArgFetchSlice ==
    /\ arg.stage = "ready" /\ arg.calls < MaxFetches
    /\ \E t \in ArgTypes, count \in SliceCounts :
         ArgCalled("fetch_slice", t, count,
                   fetch_slice(arg.it, t.size, t.align, count))
    /\ UNCHANGED <<sessionVars, dec, dir, rsp, kc, rdr, imt, sfd>>

ArgFetchStr ==
    /\ arg.stage = "ready" /\ arg.calls < MaxFetches
    /\ ArgCalled("fetch_str", [size |-> 1, align |-> 1], 1,
                 fetch_str(arg.it))
    /\ UNCHANGED <<sessionVars, dec, dir, rsp, kc, rdr, imt, sfd>>

ArgFetchAll ==
    /\ arg.stage = "ready" /\ arg.calls < MaxFetches
    /\ ArgCalled("fetch_all", [size |-> 1, align |-> 1], 1,
                 fetch_all(arg.it))
    /\ UNCHANGED <<sessionVars, dec, dir, rsp, kc, rdr, imt, sfd>>

NextArgs == ArgFetch \/ ArgFetchSlice \/ ArgFetchStr \/ ArgFetchAll

SpecArgs == InitArgs /\ [][NextArgs]_vars

\* ------------------------------------------- configuring in the init hook
\* Filesystem::init receives the KernelConfig that Request::dispatch_req
\* made from the Init request and may call its setters
U32Values == {0, 1, 4096, MAX_WRITE_SIZE, MAX_WRITE_SIZE + 1}

U16Values == {0, 1, 12, 100}

Durations ==
    { Duration_new(0, 0), Duration_new(0, 1), Duration_new(0, 6),
      Duration_new(0, 9), Duration_new(0, 10), Duration_new(0, 15),
      Duration_new(0, 1000), Duration_new(1, 0), Duration_new(1, 1),
      Duration_new(2, 0) }

\* fuse_init_in.max_readahead as the kernel may send it
KernelReadaheads == {0, InitReadahead}

\* capability sets a filesystem asks for
AddSets ==
    {0, FUSE_POSIX_LOCKS, FUSE_POSIX_LOCKS + FUSE_ATOMIC_O_TRUNC,
     FUSE_ATOMIC_O_TRUNC}

InitConfig ==
    /\ SessionIdle
    /\ rdr = RdrIdle /\ imt = ImtIdle /\ sfd = SfdIdle
    /\ dec = DecIdle /\ dir = DirIdle /\ rsp = RspIdle /\ arg = ArgIdle
    /\ kc \in { [KcIdle EXCEPT !.stage = "hook",
                               !.config = KernelConfig_new(caps, ra),
                               !.pre = KernelConfig_new(caps, ra)] :
                  caps \in KernelCaps, ra \in KernelReadaheads }

\* one setter call: what was asked, the Result, and the configuration
\* before and after (Durations are recorded in nanoseconds)
KcCalled(op, asked, ok, val, config) ==
    kc' = [stage  |-> "hook",
           config |-> config,
           pre    |-> kc.config,
           last   |-> [op |-> op, req |-> asked, ok |-> ok, val |-> val],
           reply  |-> kc.reply,
           calls  |-> kc.calls + 1]

KcSetTimeGranularity ==
    /\ kc.stage = "hook" /\ kc.calls < MaxCalls
    /\ \E value \in Durations :
         LET r == set_time_granularity(kc.config, value)
         IN  KcCalled("set_time_granularity", as_nanos(value), r.ok,
                      as_nanos(r.val), r.config)
    /\ UNCHANGED <<sessionVars, dec, dir, rsp, arg, rdr, imt, sfd>>

KcSetMaxWrite ==
    /\ kc.stage = "hook" /\ kc.calls < MaxCalls
    /\ \E value \in U32Values :
         LET r == set_max_write(kc.config, value)
         IN  KcCalled("set_max_write", value, r.ok, r.val, r.config)
    /\ UNCHANGED <<sessionVars, dec, dir, rsp, arg, rdr, imt, sfd>>

KcSetMaxReadahead ==
    /\ kc.stage = "hook" /\ kc.calls < MaxCalls
    /\ \E value \in U32Values :
         LET r == set_max_readahead(kc.config, value)
         IN  KcCalled("set_max_readahead", value, r.ok, r.val, r.config)
    /\ UNCHANGED <<sessionVars, dec, dir, rsp, arg, rdr, imt, sfd>>

KcAddCapabilities ==
    /\ kc.stage = "hook" /\ kc.calls < MaxCalls
    /\ \E capabilities_to_add \in AddSets :
         LET r == add_capabilities(kc.config, capabilities_to_add)
         IN  KcCalled("add_capabilities", capabilities_to_add, r.ok, r.val,
                      r.config)
    /\ UNCHANGED <<sessionVars, dec, dir, rsp, arg, rdr, imt, sfd>>

KcSetMaxBackground ==
    /\ kc.stage = "hook" /\ kc.calls < MaxCalls
    /\ \E value \in U16Values :
         LET r == set_max_background(kc.config, value)
         IN  KcCalled("set_max_background", value, r.ok, r.val, r.config)
    /\ UNCHANGED <<sessionVars, dec, dir, rsp, arg, rdr, imt, sfd>>

KcSetCongestionThreshold ==
    /\ kc.stage = "hook" /\ kc.calls < MaxCalls
    /\ \E value \in U16Values :
         LET r == set_congestion_threshold(kc.config, value)
         IN  KcCalled("set_congestion_threshold", value, r.ok, r.val,
                      r.config)
    /\ UNCHANGED <<sessionVars, dec, dir, rsp, arg, rdr, imt, sfd>>

\* the hook returns Ok and dispatch_req builds the Init reply
KcReply ==
    /\ kc.stage = "hook"
    /\ kc' = [kc EXCEPT !.stage = "replied",
                        !.reply = fuse_init_out(kc.config.capabilities,
                                                kc.config)]
    /\ UNCHANGED <<sessionVars, dec, dir, rsp, arg, rdr, imt, sfd>>

NextConfig ==
    KcSetTimeGranularity \/ KcSetMaxWrite \/ KcSetMaxReadahead
      \/ KcAddCapabilities \/ KcSetMaxBackground \/ KcSetCongestionThreshold
      \/ KcReply

SpecConfig == InitConfig /\ [][NextConfig]_vars

\* ------------------------------------------- paging through a directory
\* the names of the files created in the root directory; their directory
\* records take 32, 32 and 40 bytes
ListingNames == {Fill(97, 1), Fill(98, 8), Fill(99, 9)}

\* the buffer sizes the kernel reads the directory with
ReadDirSizes == {32, 64, 72, 104, 4096}

\* the listing cache's entries for the root directory
RootListing(fs) == ListStatusCache_get(fs.ls_cache, RootPath).entries

\* a fresh filesystem: only the root inode, nothing cached
InitReaddir ==
    /\ SessionIdle
    /\ se.allowed = "All"
    /\ dec = DecIdle /\ dir = DirIdle
    /\ rsp = RspIdle /\ arg = ArgIdle /\ kc = KcIdle
    /\ imt = ImtIdle /\ sfd = SfdIdle
    /\ rdr = [RdrIdle EXCEPT !.stage = "fill"]

\* a file is created in the root directory
RdCreate ==
    /\ rdr.stage = "fill"
    /\ Len(RootListing(rdr.fs)) < MaxListing
    /\ \E name \in ListingNames :
         rdr' = [rdr EXCEPT
                   !.fs = UringFilesystem_create(@, FUSE_ROOT_ID, name).fs]
    /\ UNCHANGED <<sessionVars, dec, dir, rsp, arg, kc, imt, sfd>>

\* the kernel opens the root directory and will read it with buffers of
\* one size, starting at offset 0
RdOpenDir ==
    /\ rdr.stage = "fill"
    /\ \E size \in ReadDirSizes :
         rdr' = [rdr EXCEPT !.stage = "read", !.size = size, !.offset = 0]
    /\ UNCHANGED <<sessionVars, dec, dir, rsp, arg, kc, imt, sfd>>

\* one ReadDir request: the kernel takes the entries out of the reply and
\* will resume from the offset of the last one; an error or a reply without
\* entries ends the enumeration
RdReadDir ==
    /\ rdr.stage = "read"
    /\ LET r == UringFilesystem_readdir(
                  rdr.fs, FUSE_ROOT_ID, rdr.offset,
                  ReplyDirectory_new(1, rdr.size))
           ents == Dirents(r.data)
           names == [i \in 1..Len(ents) |-> ents[i].name]
       IN  rdr' = [rdr EXCEPT
                     !.stage = IF ents = <<>> THEN "end" ELSE "read",
                     !.offset = IF ents = <<>> THEN @
                                ELSE ents[Len(ents)].offset,
                     !.seen = @ \o SelectSeq(names, LAMBDA n : n # Dot),
                     !.dots = @ + Len(SelectSeq(names, LAMBDA n : n = Dot)),
                     !.last = ents,
                     !.completed = r.completed,
                     !.calls = @ + 1]
    /\ UNCHANGED <<sessionVars, dec, dir, rsp, arg, kc, imt, sfd>>

NextReaddir == RdCreate \/ RdOpenDir \/ RdReadDir

SpecReaddir == InitReaddir /\ [][NextReaddir]_vars

\* ------------------------------------------- threads in the InodeManager
\* InodeManager is a handle on an Arc<InodeManagerInner>; its methods take
\* &self, so threads may be inside them at the same time.  A thread holds a
\* lock only for the expression that takes it, so each access to `inodes`,
\* to `path_index` and to `next_ino` is one step.
Threads == 1..NumThreads

\* the names threads create and look up in the root directory
InodeNames == {Fill(97, 1), Fill(98, 1)}

\* the inode numbers threads ask for
AskedInos == {FUSE_ROOT_ID, FirstIno, FirstIno + 1}

\* a thread outside the InodeManager
ThreadIdle ==
    [pc |-> "idle", op |-> "none", parent |-> 0, name |-> <<>>,
     inode |-> NoInode, ino |-> 0,
     ret |-> [ok |-> FALSE, inode |-> NoInode]]

InitInodes ==
    /\ SessionIdle
    /\ se.allowed = "All"
    /\ dec = DecIdle /\ dir = DirIdle
    /\ rsp = RspIdle /\ arg = ArgIdle /\ kc = KcIdle
    /\ rdr = RdrIdle /\ sfd = SfdIdle
    /\ imt = [ImtIdle EXCEPT !.stage = "shared"]

\* a thread calls create, get or lookup
ImtCall(t) ==
    /\ imt.stage = "shared"
    /\ imt.th[t].pc = "idle"
    /\ imt.calls < MaxInodeCalls
    /\ \/ \E name \in InodeNames :
            imt' = [imt EXCEPT
                      !.th[t] = [ThreadIdle EXCEPT
                                   !.pc = "fetch_add", !.op = "create",
                                   !.parent = FUSE_ROOT_ID, !.name = name],
                      !.calls = @ + 1]
       \/ \E ino \in AskedInos :
            imt' = [imt EXCEPT
                      !.th[t] = [ThreadIdle EXCEPT
                                   !.pc = "get", !.op = "get", !.ino = ino],
                      !.calls = @ + 1]
       \/ \E parent \in AskedInos : \E name \in InodeNames :
            imt' = [imt EXCEPT
                      !.th[t] = [ThreadIdle EXCEPT
                                   !.pc = "lookup_parent", !.op = "lookup",
                                   !.parent = parent, !.name = name],
                      !.calls = @ + 1]
    /\ UNCHANGED <<sessionVars, dec, dir, rsp, arg, kc, rdr, sfd>>

\* create: the inode number is taken and the Inode built
ImtFetchAdd(t) ==
    /\ imt.th[t].pc = "fetch_add"
    /\ LET f == next_ino_fetch_add(imt.im)
           me == imt.th[t]
       IN  imt' = [imt EXCEPT
                     !.im = f.im,
                     !.handed = Append(@, f.ino),
                     !.th[t].pc = "insert_1",
                     !.th[t].inode =
                        Inode_new(f.ino, me.parent, me.name,
                                  PathBuf_join(RootPath, me.name),
                                  "RegularFile")]
    /\ UNCHANGED <<sessionVars, dec, dir, rsp, arg, kc, rdr, sfd>>

\* create: the first insertion
ImtInsertFirst(t) ==
    /\ imt.th[t].pc = "insert_1"
    /\ imt' = [imt EXCEPT
                 !.im = create_insert(@, imt.th[t].inode, 1),
                 !.th[t].pc = "insert_2"]
    /\ UNCHANGED <<sessionVars, dec, dir, rsp, arg, kc, rdr, sfd>>

\* create: the second insertion, and the return of Ok(inode_new)
ImtInsertSecond(t) ==
    /\ imt.th[t].pc = "insert_2"
    /\ imt' = [imt EXCEPT
                 !.im = create_insert(@, imt.th[t].inode, 2),
                 !.th[t].pc = "idle",
                 !.th[t].ret = [ok |-> TRUE, inode |-> imt.th[t].inode]]
    /\ UNCHANGED <<sessionVars, dec, dir, rsp, arg, kc, rdr, sfd>>

\* get: one read of the inode table
ImtGet(t) ==
    /\ imt.th[t].pc = "get"
    /\ imt' = [imt EXCEPT
                 !.th[t].pc = "idle",
                 !.th[t].ret = inodes_get(imt.im, imt.th[t].ino)]
    /\ UNCHANGED <<sessionVars, dec, dir, rsp, arg, kc, rdr, sfd>>

\* lookup: the parent is read from the inode table
ImtLookupParent(t) ==
    /\ imt.th[t].pc = "lookup_parent"
    /\ LET p == inodes_get(imt.im, imt.th[t].parent)
       IN  imt' = [imt EXCEPT
                     !.th[t].pc = IF p.ok THEN "lookup_index" ELSE "idle",
                     !.th[t].inode = p.inode,
                     !.th[t].ret = [ok |-> FALSE, inode |-> NoInode]]
    /\ UNCHANGED <<sessionVars, dec, dir, rsp, arg, kc, rdr, sfd>>

\* lookup: the joined path is read from the path index
ImtLookupIndex(t) ==
    /\ imt.th[t].pc = "lookup_index"
    /\ LET i == path_index_get(
                  imt.im,
                  PathBuf_join(imt.th[t].inode.full_path, imt.th[t].name))
       IN  imt' = [imt EXCEPT
                     !.th[t].pc = IF i.ok THEN "lookup_inode" ELSE "idle",
                     !.th[t].ino = i.ino]
    /\ UNCHANGED <<sessionVars, dec, dir, rsp, arg, kc, rdr, sfd>>

\* lookup: the inode found in the index is read from the inode table
ImtLookupInode(t) ==
    /\ imt.th[t].pc = "lookup_inode"
    /\ imt' = [imt EXCEPT
                 !.th[t].pc = "idle",
                 !.th[t].ret = inodes_get(imt.im, imt.th[t].ino)]
    /\ UNCHANGED <<sessionVars, dec, dir, rsp, arg, kc, rdr, sfd>>

NextInodes ==
    \E t \in Threads :
        \/ ImtCall(t)
        \/ ImtFetchAdd(t)
        \/ ImtInsertFirst(t)
        \/ ImtInsertSecond(t)
        \/ ImtGet(t)
        \/ ImtLookupParent(t)
        \/ ImtLookupIndex(t)
        \/ ImtLookupInode(t)

SpecInodes == InitInodes /\ [][NextInodes]_vars

\* ------------------------------------------- the handles of a SharedFd
InitSharedFd ==
    /\ SessionIdle
    /\ se.allowed = "All"
    /\ dec = DecIdle /\ dir = DirIdle
    /\ rsp = RspIdle /\ arg = ArgIdle /\ kc = KcIdle
    /\ rdr = RdrIdle /\ imt = ImtIdle
    /\ sfd = SharedFd_new

\* #[derive(Clone)]: one more handle on the same Inner
SfdClone ==
    /\ sfd.users > 0
    /\ sfd.strong < MaxClones
    /\ sfd' = [sfd EXCEPT !.users = @ + 1, !.strong = @ + 1]
    /\ UNCHANGED <<sessionVars, dec, dir, rsp, arg, kc, rdr, imt>>

\* a handle is dropped without close
SfdDrop ==
    /\ sfd.users > 0
    /\ \E submitted \in BOOLEAN :
         sfd' = Rc_drop([sfd EXCEPT !.users = @ - 1], submitted)
    /\ UNCHANGED <<sessionVars, dec, dir, rsp, arg, kc, rdr, imt>>

\* close(self) is called on a handle: the future owns the handle and is
\* scheduled for its first poll
SfdClose(f) ==
    /\ sfd.users > 0
    /\ sfd.fut[f].st = "none"
    /\ \A g \in Futures : g < f => sfd.fut[g].st # "none"
    /\ sfd' = [sfd EXCEPT !.users = @ - 1,
                          !.fut[f] = [st |-> "created", woken |-> TRUE]]
    /\ UNCHANGED <<sessionVars, dec, dir, rsp, arg, kc, rdr, imt>>

\* the executor polls a close future that is scheduled
SfdPoll(f) ==
    /\ sfd.fut[f].st \in {"created", "pending"}
    /\ sfd.fut[f].woken
    /\ \E submitted \in BOOLEAN : \E submitted_in_drop \in BOOLEAN :
         sfd' = SharedFd_close(sfd, f, submitted, submitted_in_drop)
    /\ UNCHANGED <<sessionVars, dec, dir, rsp, arg, kc, rdr, imt>>

\* the driver completes the close op and wakes the task that polled it
SfdComplete ==
    /\ sfd.inner = "alive"
    /\ sfd.op = "inflight"
    /\ sfd' = [sfd EXCEPT
                 !.op = "complete",
                 !.fut = [f \in Futures |->
                            IF sfd.fut[f].st = "pending"
                            THEN [sfd.fut[f] EXCEPT !.woken = TRUE]
                            ELSE sfd.fut[f]]]
    /\ UNCHANGED <<sessionVars, dec, dir, rsp, arg, kc, rdr, imt>>

\* the task of a pending close future is woken for another reason
SfdWake(f) ==
    /\ sfd.fut[f].st = "pending"
    /\ ~sfd.fut[f].woken
    /\ sfd' = [sfd EXCEPT !.fut[f].woken = TRUE]
    /\ UNCHANGED <<sessionVars, dec, dir, rsp, arg, kc, rdr, imt>>

\* a close future is dropped before it finished, and its handle with it
SfdCancel(f) ==
    /\ sfd.fut[f].st \in {"created", "pending"}
    /\ \E submitted \in BOOLEAN :
         sfd' = Rc_drop([sfd EXCEPT !.fut[f] = [st |-> "dropped",
                                                woken |-> FALSE]],
                        submitted)
    /\ UNCHANGED <<sessionVars, dec, dir, rsp, arg, kc, rdr, imt>>

NextSharedFd ==
    \/ SfdClone
    \/ SfdDrop
    \/ SfdComplete
    \/ \E f \in Futures :
         \/ SfdClose(f)
         \/ SfdPoll(f)
         \/ SfdWake(f)
         \/ SfdCancel(f)

SpecSharedFd == InitSharedFd /\ [][NextSharedFd]_vars

\* the executor polls every scheduled task, and the driver completes every
\* submitted op; nothing obliges user code to clone, drop, close or cancel
SpecSharedFdFair ==
    /\ InitSharedFd
    /\ [][NextSharedFd]_vars
    /\ \A f \in Futures : WF_vars(SfdPoll(f))
    /\ WF_vars(SfdComplete)

\* ================================================================ claims
\* the error reply written for request id u and errno e
ErrMsg(u, e) == [unique |-> u, error |-> 0 - e, data |-> NoData]

\* a request has just been dispatched; `pre` is the session it met
Dispatched == pc = "done" /\ req.opcode # "NONE"

\* the request was decoded into operation op
Decoded(op) == operation(req).ok /\ operation(req).op = op

\* the access check of dispatch_req turned the request away
AccessRejected ==
    /\ operation(req).ok
    /\ AccessViolated(pre, req)
    /\ operation(req).op \notin AllowList

\* the version carried by the Init request is older than ABI 7.6
ReqBelow7_6 == req.major < 7 \/ (req.major = 7 /\ req.minor < 6)

C2_ReplySendsOnce ==
    [][\A u \in Uniques :
         /\ (track[u] \notin {"completed", "abandoned"}
             /\ track'[u] \in {"completed", "abandoned"})
              => /\ Len(out') = 1
                 /\ out'[1].unique = u
                 /\ track'[u] = "abandoned" => out' = <<ErrMsg(u, EIO)>>
                 /\ sends[u] = 0 /\ sends'[u] = 1
         /\ track[u] \in {"completed", "abandoned"} => sends'[u] = sends[u]
         /\ track'[u] = "live" => sends'[u] = 0]_vars

C2_Witness ==
    \E u, v \in Uniques :
      /\ track[u] = "abandoned" /\ sends[u] = 1
      /\ track[v] = "completed" /\ sends[v] = 1
      /\ pc = "done" /\ out = <<ErrMsg(u, EIO)>>

\* C3: a filesystem operation method (anything but the init and destroy
\* hooks) is only invoked while the session is Initialized and not
\* Destroyed.
C3_MethodsOnlyWhileInitialized ==
    (Dispatched /\ called \notin {"none", "init", "destroy"})
      => (pre.initialized /\ ~pre.destroyed)

C3_Witness ==
    /\ Dispatched
    /\ called = "lookup"
    /\ pre.initialized /\ ~pre.destroyed
    /\ \E u \in Uniques : track[u] = "answered" /\ u < req.unique

\* C4: before Init, every decoded operation other than Init that passes
\* the access check is answered EIO, calls nothing in the filesystem and
\* leaves the session unchanged.
C4_BeforeInitEIO ==
    (/\ Dispatched
     /\ ~pre.initialized
     /\ operation(req).ok
     /\ operation(req).op # "Init"
     /\ ~AccessRejected)
      => /\ out = <<ErrMsg(req.unique, EIO)>>
         /\ called = "none"
         /\ se = pre

C4_Witness ==
    /\ Dispatched
    /\ ~pre.initialized
    /\ Decoded("Destroy")
    /\ out = <<ErrMsg(req.unique, EIO)>>

\* C5 (as stated): after a Destroy has been processed, every further
\* operation, a further Init or Destroy included, is answered EIO, calls
\* nothing in the filesystem and leaves the session unchanged.
C5_AfterDestroyEIO ==
    (/\ Dispatched
     /\ pre.destroyed
     /\ operation(req).ok
     /\ ~AccessRejected)
      => /\ out = <<ErrMsg(req.unique, EIO)>>
         /\ called = "none"
         /\ se = pre

\* C6: an Init whose major version is below 6 is answered EPROTO, does not
\* call the init hook, does not mark the session Initialized and does not
\* change the recorded protocol version.
C6_OldMajorEPROTO ==
    (Dispatched /\ Decoded("Init") /\ req.major < 6)
      => /\ out = <<ErrMsg(req.unique, EPROTO)>>
         /\ called = "none"
         /\ se.initialized = pre.initialized
         /\ se.proto_major = pre.proto_major
         /\ se.proto_minor = pre.proto_minor

C6_Witness ==
    /\ Dispatched
    /\ Decoded("Init")
    /\ req.major < 6
    /\ req.minor >= 6
    /\ out = <<ErrMsg(req.unique, EPROTO)>>

\* C7: an Init with an acceptable version whose init hook succeeds marks
\* the session Initialized, records the kernel's major and minor, and
\* replies with flags = kernel capabilities AND the configuration's
\* requested flags.
C7_InitSuccess ==
    (/\ Dispatched
     /\ Decoded("Init")
     /\ ~ReqBelow7_6
     /\ called = "init"
     /\ \A e \in FsErrnos : out # <<ErrMsg(req.unique, e)>>)
      => /\ se.initialized
         /\ se.proto_major = req.major
         /\ se.proto_minor = req.minor
         /\ Len(out) = 1
         /\ out[1].unique = req.unique
         /\ out[1].error = 0
         /\ out[1].data.kind = "init"
         /\ out[1].data.flags = BitAnd(req.flags, cfg.requested)

C7_Witness ==
    /\ Dispatched
    /\ Decoded("Init")
    /\ called = "init"
    /\ se.initialized /\ ~pre.initialized
    /\ Len(out) = 1
    /\ out[1].error = 0
    /\ out[1].data.flags = FUSE_ASYNC_READ + FUSE_POSIX_LOCKS
    /\ cfg.requested # out[1].data.flags

\* C8 (as stated): an Init is answered EPROTO only for major versions
\* below 6; with a major version of 6 or more it is not answered EPROTO,
\* records the version and calls the init hook.
C8_Major6Accepted ==
    (Dispatched /\ Decoded("Init") /\ req.major >= 6)
      => /\ out # <<ErrMsg(req.unique, EPROTO)>>
         /\ called = "init"
         /\ se.proto_major = req.major
         /\ se.proto_minor = req.minor

\* C8 (amended): an Init is rejected with EPROTO, without calling the init
\* hook, exactly when its version is below 7.6 (major below 7, or major 7
\* with minor below 6); every Init with version 7.6 or more records the
\* version and calls the init hook.
C8_Below7_6Rejected ==
    (Dispatched /\ Decoded("Init"))
      => /\ ReqBelow7_6
              <=> (out = <<ErrMsg(req.unique, EPROTO)>> /\ called = "none")
         /\ ~ReqBelow7_6
              => /\ called = "init"
                 /\ se.proto_major = req.major
                 /\ se.proto_minor = req.minor

C8_Witness ==
    /\ Dispatched
    /\ Decoded("Init")
    /\ req.major = 7 /\ req.minor = 5
    /\ out = <<ErrMsg(req.unique, EPROTO)>>
    /\ \E u \in Uniques :
         u < req.unique /\ track[u] = "answered" /\ pre.proto_major = 8

\* C9 (as stated): once the session is Initialized, a further Init does
\* not call the init hook again and does not change the recorded version.
C9_InitOnlyOnce ==
    (Dispatched /\ Decoded("Init") /\ pre.initialized)
      => /\ called # "init"
         /\ se.proto_major = pre.proto_major
         /\ se.proto_minor = pre.proto_minor

\* C9 (amended): once the session is Initialized, a further Init never
\* clears the Initialized flag; with a version below 7.6 it calls no hook
\* and leaves the session unchanged, and with a version of 7.6 or more it
\* is processed like the first one: the version it carries is recorded
\* and the init hook is called again.
C9_InitializedStaysButInitRepeats ==
    (Dispatched /\ Decoded("Init") /\ pre.initialized)
      => /\ se.initialized
         /\ ReqBelow7_6
              => (called = "none" /\ se = pre)
         /\ ~ReqBelow7_6
              => /\ called = "init"
                 /\ se.proto_major = req.major
                 /\ se.proto_minor = req.minor

C9_Witness ==
    /\ Dispatched
    /\ Decoded("Init")
    /\ pre.initialized
    /\ called = "init"
    /\ se.initialized
    /\ se.proto_major # pre.proto_major
    /\ \E e \in FsErrnos : out = <<ErrMsg(req.unique, e)>>

\* C10: Destroyed implies Initialized in every reachable state, and no
\* step clears either flag.
C10_LifecycleMonotone ==
    /\ [](se.destroyed => se.initialized)
    /\ [][/\ se.initialized => se'.initialized
          /\ se.destroyed => se'.destroyed]_vars

C10_Witness ==
    /\ Dispatched
    /\ called = "destroy"
    /\ se.destroyed /\ se.initialized
    /\ pre.initialized /\ ~pre.destroyed

\* C11: a decoded request is turned away with EACCES exactly when the
\* session's access policy rejects its uid (Owner: any uid but the owner's;
\* RootAndOwner: any uid but the owner's and 0; All: none) and its operation
\* is not one the kernel issues without a uid (Init, Destroy, Read, ReadDir,
\* ReadDirPlus, BatchForget, Forget, Write, FSync, FSyncDir, Release,
\* ReleaseDir); a request turned away calls nothing in the filesystem and
\* leaves the lifecycle state unchanged.
C11_AccessDenied ==
    (Dispatched /\ operation(req).ok)
      => LET stranger ==
               \/ pre.allowed = "Owner" /\ req.uid # pre.session_owner
               \/ pre.allowed = "RootAndOwner"
                    /\ req.uid \notin {pre.session_owner, 0}
             exempt ==
               req.opcode \in {"Init", "Destroy", "Read", "ReadDir",
                               "ReadDirPlus", "BatchForget", "Forget",
                               "Write", "FSync", "FSyncDir", "Release",
                               "ReleaseDir"}
         IN  /\ (stranger /\ ~exempt)
                  <=> out = <<ErrMsg(req.unique, EACCES)>>
             /\ (stranger /\ ~exempt) => (called = "none" /\ se = pre)

C11_Witness ==
    /\ Dispatched
    /\ Decoded("Lookup")
    /\ pre.allowed = "RootAndOwner"
    /\ req.uid \notin {pre.session_owner, 0}
    /\ pre.initialized /\ ~pre.destroyed
    /\ out = <<ErrMsg(req.unique, EACCES)>>
    /\ \E u \in Uniques :
         u < req.unique /\ track[u] = "completed" /\ sends[u] = 1

\* C12: a request whose opcode is unknown or whose arguments do not decode
\* is answered ENOSYS, whatever the lifecycle state and the uid, calls
\* nothing in the filesystem and leaves the session unchanged.
C12_UndecodableENOSYS ==
    (Dispatched /\ (req.opcode \notin Operations \/ ~req.argsOk))
      => /\ out = <<ErrMsg(req.unique, ENOSYS)>>
         /\ called = "none"
         /\ se = pre

C12_Witness ==
    /\ Dispatched
    /\ req.opcode = "Lookup" /\ ~req.argsOk
    /\ pre.destroyed
    /\ pre.allowed = "Owner" /\ req.uid # pre.session_owner
    /\ out = <<ErrMsg(req.unique, ENOSYS)>>

\* C15: on a session that is Initialized and not Destroyed, a decoded
\* Interrupt, Poll, NotifyReply, CuseInit or IoCtl with the unrestricted
\* flag that passes the access check is answered ENOSYS, calls nothing in
\* the filesystem and leaves the session unchanged; an IoCtl without the
\* unrestricted flag is handed to the filesystem's ioctl method.
C15_StubbedENOSYS ==
    (/\ Dispatched
     /\ operation(req).ok
     /\ pre.initialized /\ ~pre.destroyed
     /\ ~AccessRejected)
      => /\ (\/ req.opcode \in {"Interrupt", "Poll", "NotifyReply",
                                 "CuseInit"}
             \/ (req.opcode = "IoCtl" /\ req.unrestricted))
              => /\ out = <<ErrMsg(req.unique, ENOSYS)>>
                 /\ called = "none"
                 /\ se = pre
         /\ (req.opcode = "IoCtl" /\ ~req.unrestricted)
              => /\ called = "ioctl"
                 /\ track[req.unique] \in {"completed", "abandoned", "live"}
                 /\ out # <<ErrMsg(req.unique, ENOSYS)>>

C15_Witness ==
    /\ Dispatched
    /\ Decoded("IoCtl")
    /\ ~req.unrestricted
    /\ called = "ioctl"
    /\ \E u \in Uniques :
         /\ u < req.unique
         /\ track[u] = "answered"
         /\ sends[u] = 1
         /\ u # 1

C17_DestroyProcessed ==
    (/\ Dispatched
     /\ Decoded("Destroy")
     /\ pre.initialized /\ ~pre.destroyed)
      => /\ called = "destroy"
         /\ se = [pre EXCEPT !.destroyed = TRUE]
         /\ out = <<[unique |-> req.unique, error |-> 0, data |-> NoData]>>
         /\ sends[req.unique] = 1

C17_Witness ==
    /\ Dispatched
    /\ Decoded("Destroy")
    /\ pre.initialized /\ ~pre.destroyed
    /\ se.destroyed
    /\ pre.allowed = "Owner" /\ req.uid # pre.session_owner
    /\ out = <<[unique |-> req.unique, error |-> 0, data |-> NoData]>>

\* C18: Reply objects kept by the filesystem may be completed in any order
\* and between dispatches: each kept Reply carries the unique id of the
\* request it was made for and that request is still unanswered; no two
\* kept Replies share an id; a request stays pending exactly as long as
\* its Reply is kept (none is lost); and the step that completes or drops
\* a kept Reply writes exactly one message, with that Reply's id, and
\* changes the message count of no other request.
C18_OutOfOrderCompletion ==
    /\ [](/\ \A reply \in held :
              /\ reply.sender
              /\ reply.unique \in Uniques
              /\ track[reply.unique] = "live"
              /\ sends[reply.unique] = 0
          /\ \A r1, r2 \in held : r1.unique = r2.unique => r1 = r2
          /\ \A u \in Uniques :
               track[u] = "live" <=> \E reply \in held : reply.unique = u
          /\ (Dispatched /\ track[req.unique] = "live")
               => \E reply \in held : reply.unique = req.unique)
    /\ [][\A reply \in held :
            reply \notin held'
              => /\ Len(out') = 1
                 /\ out'[1].unique = reply.unique
                 /\ sends'[reply.unique] = 1
                 /\ \A u \in Uniques \ {reply.unique} :
                      sends'[u] = sends[u]
                 /\ held' = held \ {reply}]_vars

C18_Witness ==
    /\ pc = "done"
    /\ req.opcode = "NONE"
    /\ \E u, v \in Uniques :
         /\ u < v
         /\ track[u] = "live" /\ sends[u] = 0
         /\ track[v] = "completed" /\ sends[v] = 1
         /\ Len(out) = 1 /\ out[1].unique = v

\* the session loop has just read a buffer that Request::new turned down
Unparsed == pc = "done" /\ req.opcode = "NONE" /\ req.unique \in Uniques

\* C13 (as stated): every kind of parse failure - short header, unknown
\* opcode, insufficient argument bytes - gives the failing request an error
\* reply and leaves the session state unchanged.
C13_ParseFailureReplied ==
    (\/ Unparsed
     \/ (Dispatched /\ (req.opcode \notin Operations \/ ~req.argsOk)))
      => /\ Len(out) = 1
         /\ out[1].unique = req.unique
         /\ out[1].error < 0
         /\ se = pre

\* C13 (amended): a request with an unknown opcode or insufficient argument
\* bytes gets an error reply with its unique id, calls nothing in the
\* filesystem and leaves the session unchanged; a buffer with a short
\* header, or shorter than its header announces, never becomes a Request:
\* no reply is written for it, nothing is called, and the session, the
\* kept Replies and every other request's reply count stay as they were.
C13_ParseFailureLocal ==
    /\ [](/\ (Dispatched /\ (req.opcode \notin Operations \/ ~req.argsOk))
               => /\ Len(out) = 1
                  /\ out[1].unique = req.unique
                  /\ out[1].error < 0
                  /\ called = "none"
                  /\ se = pre
          /\ Unparsed
               => /\ track[req.unique] \in {"ShortReadHeader", "ShortRead"}
                  /\ out = <<>>
                  /\ sends[req.unique] = 0
                  /\ called = "none"
                  /\ se = pre)
    /\ [][(pc = "read" /\ req'.opcode = "NONE" /\ req'.unique \in Uniques)
            => /\ se' = se
               /\ held' = held
               /\ sends' = sends
               /\ \A v \in Uniques \ {req'.unique} : track'[v] = track[v]]_vars

C13_Witness ==
    /\ Unparsed
    /\ track[req.unique] = "ShortRead"
    /\ se.initialized
    /\ \E v \in Uniques : v < req.unique /\ track[v] = "ShortReadHeader"

\* C14: for every supported opcode, decoding a proper prefix of a valid
\* request buffer gives an error value (short header, short read, unknown
\* operation or insufficient data), never an operation and never a panic or
\* failed assertion.
C14_TruncationFails ==
    (/\ dec.stage = "decoded"
     /\ Len(dec.data) < Len(dec.orig)
     /\ dec.data = SubSeq(dec.orig, 1, Len(dec.data)))
      => dec.result.tag \in {"ShortReadHeader", "ShortRead",
                             "UnknownOperation", "InsufficientData"}

C14_Witness ==
    /\ dec.stage = "decoded"
    /\ FromLE(SubSeq(dec.orig, 5, 8)) = 16
    /\ FromLE(SubSeq(dec.orig, 1, 4)) = Len(dec.orig)
    /\ Len(dec.orig) = HeaderSize + 40 + MaxPayload
    /\ Len(dec.data) = Len(dec.orig) - 1
    /\ dec.result.tag = "ShortRead"

\* n rounded up to the next multiple of 8
Pad8(n) == 8 * ((n + 7) \div 8)

\* C19: a directory-list push reports full exactly when the buffer length
\* plus the entry's 8-byte-padded size exceeds the maximum; a push that
\* reports full leaves the buffer as it was, a push that succeeds appends
\* exactly header, name and zero padding; the buffer never exceeds the
\* maximum, and sending the list never fails its length assertions.
C19_PushFullExactly ==
    LET buf == dir.rd.data.buf
        max_size == dir.rd.data.max_size
        entlen == Len(dir.ent[1]) + Len(dir.ent[2])
    IN  /\ Len(buf) <= max_size
        /\ dir.stage # "panic"
        /\ dir.stage = "added"
             => /\ dir.full <=> Len(dir.prev) + Pad8(entlen) > max_size
                /\ dir.full => buf = dir.prev
                /\ ~dir.full
                     => buf = dir.prev \o dir.ent[1] \o dir.ent[2]
                                \o [i \in 1..(Pad8(entlen) - entlen) |-> 0]
        /\ dir.stage = "sent"
             => dir.wire = <<[unique |-> dir.rd.reply.unique, error |-> 0,
                              data |-> buf]>>

C19_Witness ==
    /\ dir.stage = "added"
    /\ dir.full
    /\ dir.prev # <<>>
    /\ dir.rd.data.buf = dir.prev
    /\ Len(dir.prev) + Len(dir.ent[1]) + Len(dir.ent[2])
         <= dir.rd.data.max_size

\* the records a reader finds walking the buffer from offset off: each is
\* a 24-byte fuse_dirent, its name, and padding up to a multiple of 8
RECURSIVE DirWalk(_, _)
DirWalk(buf, off) ==
    IF off = Len(buf) THEN <<>>
    ELSE IF off + 24 > Len(buf)
    THEN <<[off |-> 0 - 1, namelen |-> 0, next |-> 0]>>
    ELSE LET namelen == FromLE(SubSeq(buf, off + 17, off + 20))
             next == off + Pad8(24 + namelen)
         IN  IF next > Len(buf)
             THEN <<[off |-> 0 - 1, namelen |-> 0, next |-> 0]>>
             ELSE <<[off |-> off, namelen |-> namelen, next |-> next]>>
                    \o DirWalk(buf, next)

\* C20: after any sequence of pushes the buffer length is a multiple of 8
\* and the buffer is a sequence of records that each start at a multiple
\* of 8 and occupy header length plus name length rounded up to a multiple
\* of 8, the bytes after the name being zero.
C20_RecordsAligned ==
    LET buf == dir.rd.data.buf
        recs == DirWalk(buf, 0)
    IN  /\ Len(buf) % 8 = 0
        /\ Len(recs) <= dir.adds
        /\ \A i \in DOMAIN recs :
             /\ recs[i].off >= 0
             /\ recs[i].off % 8 = 0
             /\ \A j \in (recs[i].off + 24 + recs[i].namelen + 1)
                           ..recs[i].next : buf[j] = 0
        /\ (dir.stage = "added" /\ ~dir.full)
             => /\ recs # <<>>
                /\ recs[Len(recs)].off = Len(dir.prev)
                /\ recs[Len(recs)].namelen = Len(dir.ent[2])
                /\ Len(buf) - Len(dir.prev)
                     = Pad8(Len(dir.ent[1]) + Len(dir.ent[2]))

C20_Witness ==
    /\ dir.stage = "added"
    /\ ~dir.full
    /\ Len(DirWalk(dir.rd.data.buf, 0)) = 3
    /\ Len(dir.rd.data.buf) = 104
    /\ Len(dir.ent[2]) = 8

\* an i32 read from four little-endian bytes in two's complement
I32(b) ==
    IF b[4] >= 128
    THEN 0 - ((255 - b[1]) + 256 * (255 - b[2]) + 65536 * (255 - b[3])
                + 16777216 * (255 - b[4]) + 1)
    ELSE FromLE(b)

\* the fuse_out_header read back from the first buffer of an iovec
OutHeader(b) ==
    [len    |-> FromLE(SubSeq(b, 1, 4)),
     error  |-> I32(SubSeq(b, 5, 8)),
     unique |-> FromLE(SubSeq(b, 9, 16))]

\* C21: serialising a Response for request id u gives an out-header with
\* unique = u, error = -errno for an error response and 0 otherwise, and
\* len = header size + payload length; an error response is followed by no
\* payload buffer, every other response by exactly one (the payload).
C21_SerialisedHeader ==
    rsp.stage = "sent" =>
      /\ Len(rsp.iov[1]) = 16
      /\ OutHeader(rsp.iov[1]).unique = rsp.unique
      /\ OutHeader(rsp.iov[1]).error =
           (IF rsp.resp.tag = "Error" THEN 0 - rsp.resp.errno ELSE 0)
      /\ OutHeader(rsp.iov[1]).len =
           16 + (IF rsp.resp.tag = "Error" THEN 0 ELSE Len(rsp.resp.bytes))
      /\ rsp.resp.tag = "Error" => Len(rsp.iov) = 1
      /\ rsp.resp.tag # "Error" =>
           Len(rsp.iov) = 2 /\ rsp.iov[2] = rsp.resp.bytes

C21_Witness ==
    /\ rsp.stage = "sent"
    /\ rsp.unique = 2
    /\ rsp.ctor = "data"
    /\ Len(rsp.resp.bytes) = 33
    /\ OutHeader(rsp.iov[1]) = [len |-> 49, error |-> 0, unique |-> 2]

\* C22 as stated: up to 32 bytes a payload is always held inline (copied),
\* above 32 bytes it is always referenced without being copied.
C22_ThresholdDecidesAlways ==
    (rsp.stage \in {"built", "sent"} /\ rsp.resp.tag # "Error") =>
      /\ Len(rsp.resp.bytes) <= 32 =>
           rsp.resp.repr = "inline" /\ rsp.resp.copied
      /\ Len(rsp.resp.bytes) > 32 => ~rsp.resp.copied

\* C22: the 32-byte threshold decides only where a Data payload lives: up to
\* 32 bytes inline (copied), above in the heap buffer, which is taken over
\* without a copy only from an owned vector (new_data) and is a copy for a
\* borrowed slice (new_data) or a struct (new_attr); a Slice response
\* borrows its payload without copying at every size.
C22_ThresholdForDataOnly ==
    rsp.stage \in {"built", "sent"} =>
      /\ rsp.resp.tag = "Data" =>
           /\ (Len(rsp.resp.bytes) <= 32) <=> (rsp.resp.repr = "inline")
           /\ (Len(rsp.resp.bytes) > 32) <=> (rsp.resp.repr = "heap")
           /\ rsp.resp.repr = "inline" => rsp.resp.copied
           /\ (rsp.resp.repr = "heap" /\ rsp.ctor = "data") =>
                (rsp.resp.copied <=> ~rsp.owned)
           /\ (rsp.resp.repr = "heap" /\ rsp.ctor = "attr") =>
                rsp.resp.copied
      /\ rsp.resp.tag = "Slice" =>
           rsp.resp.repr = "borrowed" /\ ~rsp.resp.copied

C22_Witness ==
    /\ rsp.stage = "built"
    /\ rsp.ctor = "data"
    /\ Len(rsp.resp.bytes) = 32
    /\ rsp.resp.repr = "inline"

\* the file kind a reader takes from st_mode: mode & S_IFMT (0o170000)
KindOfMode(mode) ==
    LET fmt == BitAnd(mode, 61440)
    IN  CASE fmt = 4096 -> "NamedPipe"
          [] fmt = 8192 -> "CharDevice"
          [] fmt = 24576 -> "BlockDevice"
          [] fmt = 16384 -> "Directory"
          [] fmt = 32768 -> "RegularFile"
          [] fmt = 40960 -> "Symlink"
          [] fmt = 49152 -> "Socket"
          [] OTHER -> "Unknown"

\* ino, size, kind and permission bits read back from a fuse_attr_out
\* payload: the fuse_attr starts at byte 16, its mode is at byte 60
DecodeAttrOut(b) ==
    LET a    == SubSeq(b, 17, Len(b))
        mode == FromLE(SubSeq(a, 61, 64))
    IN  [ino  |-> FromLE(SubSeq(a, 1, 8)),
         size |-> FromLE(SubSeq(a, 9, 16)),
         kind |-> KindOfMode(mode),
         perm |-> mode - BitAnd(mode, 61440)]

AttrRoundTrips ==
    /\ Len(rsp.resp.bytes) = 104
    /\ DecodeAttrOut(rsp.resp.bytes) =
         [ino |-> rsp.attr.ino, size |-> rsp.attr.size,
          kind |-> rsp.attr.kind, perm |-> rsp.attr.perm]

\* C29 as stated: for every FileAttr the attribute reply decodes to the same
\* ino, size, kind and permission bits.
C29_AttrRoundTripAlways ==
    (rsp.stage \in {"built", "sent"} /\ rsp.ctor = "attr") => AttrRoundTrips

\* C29: for every FileAttr whose perm has no bits outside 0o7777, the
\* attribute reply decodes to the same ino, size, kind and permission bits.
C29_AttrRoundTripPermBits ==
    (rsp.stage \in {"built", "sent"} /\ rsp.ctor = "attr"
       /\ rsp.attr.perm <= 4095) => AttrRoundTrips

C29_Witness ==
    /\ rsp.stage = "built"
    /\ rsp.ctor = "attr"
    /\ rsp.attr.kind = "Symlink"
    /\ rsp.attr.perm = 4095
    /\ rsp.attr.size = 4096
    /\ AttrRoundTrips

\* the remaining data before the last call holds a NUL byte
HadNul == \E i \in DOMAIN arg.pre.data : arg.pre.data[i] = 0

\* C23 as stated: fetch<T> returns the next size_of<T> bytes and advances by
\* exactly that when they remain (and are aligned), returns None whenever
\* fewer bytes remain, and panics only when enough data is present but
\* misaligned.
C23_ShortFetchIsNone ==
    (arg.calls > 0 /\ arg.last.op = "fetch") =>
      /\ (Len(arg.pre.data) >= arg.last.size
            /\ arg.pre.off % arg.last.align = 0) =>
           /\ arg.last.tag = "Some"
           /\ arg.last.val = SubSeq(arg.pre.data, 1, arg.last.size)
           /\ Len(arg.it.data) = Len(arg.pre.data) - arg.last.size
      /\ Len(arg.pre.data) < arg.last.size => arg.last.tag = "None"
      /\ arg.last.tag = "Panic" =>
           /\ Len(arg.pre.data) >= arg.last.size
           /\ arg.pre.off % arg.last.align # 0

\* C24: a fetch, fetch_slice or fetch_str call that returns None leaves the
\* iterator (remaining bytes and position) exactly as it was, so every
\* later fetch returns what it would have returned without the failed call.
C24_NoneLeavesCursor ==
    [][(arg'.calls = arg.calls + 1 /\ arg'.last.tag = "None"
          /\ arg'.last.op \in {"fetch", "fetch_slice", "fetch_str"})
         => (arg'.it = arg.it /\ arg'.stage = "ready")]_vars

C24_Witness ==
    /\ arg.calls = 2
    /\ arg.last.op = "fetch_str"
    /\ arg.last.tag = "None"
    /\ arg.it = arg.pre
    /\ arg.it.data = <<97, 97>>

\* C25: fetch_str returns None when the remaining data holds no NUL byte;
\* otherwise it returns exactly the bytes before the first NUL and the
\* remaining data starts just past that NUL, so the remaining length has
\* decreased by the string length plus one.
C25_FetchStr ==
    (arg.calls > 0 /\ arg.last.op = "fetch_str") =>
      IF ~HadNul
      THEN arg.last.tag = "None"
      ELSE /\ arg.last.tag = "Some"
           /\ Len(arg.last.val) < Len(arg.pre.data)
           /\ \A j \in 1..Len(arg.last.val) :
                arg.last.val[j] = arg.pre.data[j] /\ arg.last.val[j] # 0
           /\ arg.pre.data[Len(arg.last.val) + 1] = 0
           /\ Len(arg.it.data) = Len(arg.pre.data) - (Len(arg.last.val) + 1)
           /\ arg.it.data =
                SubSeq(arg.pre.data, Len(arg.last.val) + 2, Len(arg.pre.data))

C25_Witness ==
    /\ arg.calls = 1
    /\ arg.last.op = "fetch_str"
    /\ arg.pre.data = <<97, 97, 0, 0>>
    /\ arg.last.val = <<97, 97>>
    /\ arg.it.data = <<0>>

\* the five value setters, and the stored field each one writes (the
\* granularity in nanoseconds)
ValueSetters ==
    {"set_max_write", "set_max_readahead", "set_time_granularity",
     "set_max_background", "set_congestion_threshold"}

StoredField(op, config) ==
    CASE op = "set_max_write" -> config.max_write
      [] op = "set_max_readahead" -> config.max_readahead
      [] op = "set_time_granularity" ->
           config.time_gran.secs * 1000000000 + config.time_gran.nanos
      [] op = "set_max_background" -> config.max_background
      [] op = "set_congestion_threshold" -> config.congestion_threshold.value

\* `after` differs from `before` at most in the field the setter writes
OnlyFieldChanged(op, before, after) ==
    CASE op = "set_max_write" ->
           [after EXCEPT !.max_write = before.max_write] = before
      [] op = "set_max_readahead" ->
           [after EXCEPT !.max_readahead = before.max_readahead] = before
      [] op = "set_time_granularity" ->
           [after EXCEPT !.time_gran = before.time_gran] = before
      [] op = "set_max_background" ->
           [after EXCEPT !.max_background = before.max_background] = before
      [] op = "set_congestion_threshold" ->
           [after EXCEPT !.congestion_threshold = before.congestion_threshold]
             = before

\* an accepted value is stored exactly, a rejected one changes nothing
StoredExactlyOrUntouched ==
    IF kc.last.ok
    THEN /\ StoredField(kc.last.op, kc.config) = kc.last.req
         /\ OnlyFieldChanged(kc.last.op, kc.pre, kc.config)
         /\ kc.last.op = "set_congestion_threshold" =>
              kc.config.congestion_threshold.some
    ELSE kc.config = kc.pre

\* C26 as stated: every setter either stores exactly the value and returns
\* Ok with the previously stored value, or returns Err and leaves the
\* configuration unchanged.
C26_OkReturnsStored ==
    (kc.calls > 0 /\ kc.last.op \in ValueSetters) =>
      /\ StoredExactlyOrUntouched
      /\ (kc.last.ok /\ (kc.last.op # "set_congestion_threshold"
                           \/ kc.pre.congestion_threshold.some)) =>
           kc.last.val = StoredField(kc.last.op, kc.pre)

\* C26: every setter either stores exactly the value or returns Err and
\* leaves the configuration unchanged; on success set_max_write,
\* set_max_readahead, set_time_granularity and set_max_background return
\* the previously stored value, while set_congestion_threshold returns the
\* previously effective threshold: 3/4 of max_background when none was
\* stored, else the stored one capped at max_background.
C26_OkReturnsPrevious ==
    (kc.calls > 0 /\ kc.last.op \in ValueSetters) =>
      /\ StoredExactlyOrUntouched
      /\ (kc.last.ok /\ kc.last.op # "set_congestion_threshold") =>
           kc.last.val = StoredField(kc.last.op, kc.pre)
      /\ (kc.last.ok /\ kc.last.op = "set_congestion_threshold") =>
           kc.last.val =
             (IF ~kc.pre.congestion_threshold.some
              THEN (kc.pre.max_background * 3) \div 4
              ELSE IF kc.pre.congestion_threshold.value
                        <= kc.pre.max_background
              THEN kc.pre.congestion_threshold.value
              ELSE kc.pre.max_background)

C26_Witness ==
    /\ kc.calls = 2
    /\ kc.last.op = "set_congestion_threshold"
    /\ kc.last.ok
    /\ kc.pre.congestion_threshold = [some |-> TRUE, value |-> 100]
    /\ kc.pre.max_background = 16
    /\ kc.last.val = 16
    /\ kc.config.congestion_threshold.value = 12

\* the last setter call repeated on the configuration it was made on, with
\* another value: is it accepted
WouldAccept(v) ==
    CASE kc.last.op = "set_max_write" -> set_max_write(kc.pre, v).ok
      [] kc.last.op = "set_max_readahead" -> set_max_readahead(kc.pre, v).ok
      [] kc.last.op = "set_time_granularity" ->
           set_time_granularity(kc.pre,
                                Duration_new(v \div 1000000000,
                                             v % 1000000000)).ok
      [] kc.last.op = "set_max_background" -> set_max_background(kc.pre, v).ok
      [] kc.last.op = "set_congestion_threshold" ->
           set_congestion_threshold(kc.pre, v).ok

Distance(a, b) == IF a >= b THEN a - b ELSE b - a

\* values a setter may be given: the inputs, and the powers of ten
LegalCandidates ==
    U32Values \cup U16Values \cup {0, InitReadahead}
      \cup {1, 10, 100, 1000, 10000, 100000, 1000000, 10000000, 100000000,
            1000000000}

\* C27 as stated: the value in Err is the legal value nearest to the one
\* requested, and passing it back to the same setter succeeds.
C27_ErrIsNearestLegal ==
    (kc.calls > 0 /\ kc.last.op \in ValueSetters /\ ~kc.last.ok) =>
      /\ WouldAccept(kc.last.val)
      /\ \A v \in LegalCandidates :
           WouldAccept(v) =>
             Distance(kc.last.val, kc.last.req) <= Distance(v, kc.last.req)

\* the bits set in a capability word
Bits(x) == { i \in 0..22 : (x \div (2 ^ i)) % 2 = 1 }

\* C28: add_capabilities is all-or-nothing: when every asked bit is among
\* the kernel's capabilities, all are added to `requested` and the result is
\* Ok; otherwise the result is Err with exactly the asked bits the kernel
\* lacks, and the configuration is unchanged.
C28_AddAllOrNothing ==
    (kc.calls > 0 /\ kc.last.op = "add_capabilities") =>
      IF Bits(kc.last.req) \subseteq Bits(kc.pre.capabilities)
      THEN /\ kc.last.ok
           /\ Bits(kc.config.requested) =
                Bits(kc.pre.requested) \cup Bits(kc.last.req)
           /\ [kc.config EXCEPT !.requested = kc.pre.requested] = kc.pre
      ELSE /\ ~kc.last.ok
           /\ Bits(kc.last.val) =
                Bits(kc.last.req) \ Bits(kc.pre.capabilities)
           /\ kc.config = kc.pre

C28_Witness ==
    /\ kc.calls = 1
    /\ kc.last.op = "add_capabilities"
    /\ kc.pre.capabilities = FUSE_ASYNC_READ + FUSE_POSIX_LOCKS
    /\ kc.last.req = FUSE_POSIX_LOCKS + FUSE_ATOMIC_O_TRUNC
    /\ ~kc.last.ok
    /\ kc.last.val = FUSE_ATOMIC_O_TRUNC
    /\ kc.config.requested = FUSE_ASYNC_READ + FUSE_BIG_WRITES

\* the operations whose only argument is one name
NameOnly == {"Lookup", "Unlink", "RmDir", "RemoveXAttr"}

\* C30: decoding a minimally valid buffer of a supported opcode gives that
\* opcode's Operation variant and no other (opcode numbers are distinct),
\* with unique, nodeid, uid, gid and pid equal to the input header; an
\* operation that carries one name has exactly the name in the buffer.
C30_DecodesToItsVariant ==
    /\ \A a, b \in Operations : OpcodeNumber[a] = OpcodeNumber[b] => a = b
    /\ (dec.stage = "decoded" /\ dec.data = dec.orig) =>
         /\ dec.result.tag = "Some"
         /\ dec.result.op = dec.made.op
         /\ Request_unique(dec.result) = dec.made.header.unique
         /\ Request_nodeid(dec.result) = dec.made.header.nodeid
         /\ Request_uid(dec.result) = dec.made.header.uid
         /\ Request_gid(dec.result) = dec.made.header.gid
         /\ Request_pid(dec.result) = dec.made.header.pid
         /\ dec.made.op \in NameOnly =>
              dec.result.args = <<SubSeq(dec.orig, 41, Len(dec.orig) - 1)>>

C30_Witness ==
    /\ dec.stage = "decoded"
    /\ dec.data = dec.orig
    /\ dec.made.op = "Lookup"
    /\ dec.result.op = "Lookup"
    /\ dec.result.args = <<(<<97, 97>>)>>
    /\ Request_nodeid(dec.result) = 1
    /\ Request_pid(dec.result) = 4242

\* the Init just dispatched reached the init hook, which returned an errno
InitHookFailed ==
    /\ Dispatched
    /\ Decoded("Init")
    /\ called = "init"
    /\ Len(out) = 1 /\ out[1].error # 0

\* the Init just dispatched was answered with an error
InitFailed ==
    /\ Dispatched
    /\ Decoded("Init")
    /\ Len(out) = 1 /\ out[1].error # 0

\* C31 as stated: when the init hook returns an error the Init is answered
\* with the hook's errno and the session is not Initialized afterwards.
C31_HookErrorNotInitialized ==
    InitHookFailed =>
      /\ \E e \in FsErrnos : out = <<ErrMsg(req.unique, e)>>
      /\ ~se.initialized

\* C31: when the init hook returns an error the Init is answered with the
\* hook's errno and does not mark the session: Initialized is as it was
\* before (so a failing repeated Init leaves an initialized session
\* initialized); in a session that was not initialized, later operations
\* other than Init that pass decoding and the access check are still
\* answered EIO.
C31_HookErrorDoesNotMark ==
    /\ InitHookFailed =>
         /\ \E e \in FsErrnos : out = <<ErrMsg(req.unique, e)>>
         /\ se.initialized = pre.initialized
         /\ se.destroyed = pre.destroyed
    /\ (/\ Dispatched
        /\ ~pre.initialized /\ pre.proto_major # 0
        /\ req.opcode \in Operations \ {"Init"} /\ req.argsOk
        /\ ~AccessRejected)
         => out = <<ErrMsg(req.unique, EIO)>> /\ called = "none"

C31_Witness ==
    /\ Dispatched
    /\ ~pre.initialized /\ pre.proto_major = 7
    /\ Decoded("GetAttr")
    /\ out = <<ErrMsg(req.unique, EIO)>>
    /\ req.unique = 2

\* C32 as stated: an Init answered with an error leaves the whole session
\* state unchanged, protocol version included.
C32_FailedInitChangesNothing ==
    InitFailed => se = pre

\* C32: an Init answered EPROTO leaves the whole session state unchanged;
\* an Init failed by the init hook leaves it unchanged except for the
\* recorded protocol version, which is already the request's.
C32_FailedInitKeepsAllButVersion ==
    InitFailed =>
      IF req.major < 7 \/ (req.major = 7 /\ req.minor < 6)
      THEN out = <<ErrMsg(req.unique, EPROTO)>> /\ se = pre
      ELSE /\ called = "init"
           /\ se = [pre EXCEPT !.proto_major = req.major,
                               !.proto_minor = req.minor]

C32_Witness ==
    /\ InitFailed
    /\ called = "init"
    /\ pre.proto_major = 0
    /\ se.proto_major = 7 /\ se.proto_minor = 6
    /\ ~se.initialized

\* the uid of the request fails the session's access policy
Stranger ==
    \/ pre.allowed = "Owner" /\ req.uid # pre.session_owner
    \/ pre.allowed = "RootAndOwner" /\ req.uid \notin {pre.session_owner, 0}

\* C33: the access check comes before the lifecycle checks: a decoded
\* operation outside the allow-list from a uid failing the policy is
\* answered EACCES, not EIO, also before Init and after Destroy; an
\* allow-listed operation from such a uid meets the lifecycle checks like
\* any caller's: EIO before Init (Init excepted) and after Destroy
\* (Init and Destroy excepted).
C33_AccessBeforeLifecycle ==
    (Dispatched /\ Stranger /\ req.opcode \in Operations /\ req.argsOk) =>
      /\ (req.opcode \notin AllowList /\ (~pre.initialized \/ pre.destroyed))
           => out = <<ErrMsg(req.unique, EACCES)>> /\ se = pre
      /\ (req.opcode \in AllowList \ {"Init"} /\ ~pre.initialized)
           => out = <<ErrMsg(req.unique, EIO)>>
      /\ (req.opcode \in AllowList \ {"Init", "Destroy"}
            /\ pre.initialized /\ pre.destroyed)
           => out = <<ErrMsg(req.unique, EIO)>>

C33_Witness ==
    /\ Dispatched
    /\ Stranger
    /\ pre.initialized /\ pre.destroyed
    /\ Decoded("Lookup")
    /\ out = <<ErrMsg(req.unique, EACCES)>>

\* C34 as stated: AnyRequest::try_from never panics: every buffer gives a
\* request or an error, a header.len below the header size gives an error,
\* and on success the argument data is the bytes from the end of the header
\* up to header.len.
C34_TryFromNeverPanics ==
    dec.stage = "decoded" =>
      /\ dec.tried.tag \in {"Ok", "ShortReadHeader", "ShortRead"}
      /\ (Len(dec.data) >= 40 /\ FromLE(SubSeq(dec.data, 1, 4)) < 40)
           => dec.tried.tag \in {"ShortReadHeader", "ShortRead"}
      /\ dec.tried.tag = "Ok" =>
           dec.tried.data =
             SubSeq(dec.data, 41, FromLE(SubSeq(dec.data, 1, 4)))

\* C35 as stated: decoding a Write or SetXAttr whose size field differs
\* from the length of the trailing payload does not abort: it gives an
\* operation or a decode failure.
C35_SizeMismatchNoAbort ==
    (dec.stage = "decoded" /\ dec.via = "forged_size") =>
      dec.result.tag \in {"Some", "UnknownOperation", "InsufficientData"}

\* C36: after any sequence of setter calls the configuration is legal:
\* max_write in 1..MAX_WRITE_SIZE, max_readahead at most the kernel's
\* maximum, max_background at least 1, the time granularity a power of ten
\* nanoseconds of at most one second; and the Init reply carries these
\* values with a congestion threshold that does not exceed max_background.
C36_ConfigStaysLegal ==
    /\ kc.stage \in {"hook", "replied"} =>
         /\ kc.config.max_write \in 1..16777216
         /\ kc.config.max_readahead <= kc.config.max_max_readahead
         /\ kc.config.max_background >= 1
         /\ (kc.config.time_gran.secs * 1000000000 + kc.config.time_gran.nanos)
              \in {1, 10, 100, 1000, 10000, 100000, 1000000, 10000000,
                   100000000, 1000000000}
    /\ kc.stage = "replied" =>
         /\ kc.reply.congestion_threshold <= kc.reply.max_background
         /\ kc.reply.max_background = kc.config.max_background
         /\ kc.reply.max_write = kc.config.max_write
         /\ kc.reply.max_readahead = kc.config.max_readahead

C36_Witness ==
    /\ kc.stage = "replied"
    /\ kc.calls = 2
    /\ kc.config.congestion_threshold = [some |-> TRUE, value |-> 100]
    /\ kc.config.max_background = 12
    /\ kc.reply.congestion_threshold = 12

\* C37: when the kernel has read a directory to its end, each call resuming
\* from the offset of the last entry the previous one returned, it has
\* received every entry of the directory's listing cache exactly once and
\* in order, whatever the size of the reply buffer
C37_PaginationComplete ==
    rdr.stage = "end" => rdr.seen = RootListing(rdr.fs)

\* C38: whatever the interleaving of create, get and lookup calls, the
\* inode table holds the root inode (number 1, path "/"), the inode numbers
\* taken by create are 2, 3, 4, ... without repetition, and every inode
\* number stored in the path index is a key of the inode table
C38_InodeManagerInvariants ==
    imt.stage = "shared" =>
      /\ FUSE_ROOT_ID \in DOMAIN imt.im.inodes
      /\ imt.im.inodes[FUSE_ROOT_ID].ino = FUSE_ROOT_ID
      /\ imt.im.inodes[FUSE_ROOT_ID].full_path = RootPath
      /\ \A i \in DOMAIN imt.handed : imt.handed[i] = FirstIno + i - 1
      /\ \A p \in DOMAIN imt.im.path_index :
           imt.im.path_index[p] \in DOMAIN imt.im.inodes

\* two threads are inside create at once, one between its two insertions,
\* while an earlier create has returned
C38_Witness ==
    /\ imt.stage = "shared"
    /\ imt.th[1].pc = "insert_2"
    /\ imt.th[2].pc = "insert_1"
    /\ Len(imt.handed) = 2
    /\ imt.th[1].inode.full_path = imt.th[2].inode.full_path

\* C39: whatever is done with the handles of a SharedFd, its descriptor is
\* closed at most once, counting close ops submitted and synchronous closes
C39_ClosedAtMostOnce == Len(sfd.closes) <= 1

\* C40: a close() that found other clones and is waiting, and now holds
\* the only handle left because those clones have been dropped, eventually
\* returns with the descriptor closed, unless the caller gives it up
C40_CloseCompletes ==
    \A f \in Futures :
      (/\ sfd.fut[f].st = "pending"
       /\ sfd.state.tag = "Waiting"
       /\ sfd.strong = 1)
        ~> (\/ sfd.fut[f].st = "done" /\ sfd.closes # <<>>
            \/ sfd.fut[f].st = "dropped")
====
